---- MODULE Spec2Model ----
(***************************************************************************)
(* VaultTabs relay: the restore protocol of the backend                    *)
(* (RestoreService + PostgresRestoreRepository + the /restore routes +     *)
(* the cleanup job) and the extension's push-channel client.               *)
(*                                                                         *)
(* Every SQL statement is one atomic step against the store; the code     *)
(* between two awaits of a handler runs in the step of the statement that  *)
(* precedes it.  Time is counted in minutes.                              *)
(***************************************************************************)
EXTENDS Integers, Sequences, FiniteSets, Bags, TLC

\* ---------------------------------------------------------------- bounds
MaxTicks == 2
MaxCalls == 2
MaxConnects == 2
MaxUploads == 2
MaxCapturedAt == 1
MaxEvents == 2
MaxRestarts == 1
MaxFailures == 1
MaxLogins == 1
MaxTabs == 2
MaxSetups == 2
MaxStreams == 2

\* ------------------------------------------------------ program constants
\* expiresAt.setMinutes(expiresAt.getMinutes() + 5)
EXPIRY_MINUTES == 5
\* created_at < NOW() - INTERVAL '10 minutes'
STALE_MINUTES == 10
\* const keepCount = user?.snapshot_retention || 50
DEFAULT_RETENTION == 50
\* const DEBOUNCE_SECONDS = 3
DEBOUNCE_SECONDS == 3
\* const PBKDF2_ITERATIONS = 100_000
PBKDF2_ITERATIONS == 100000
\* deriveRecoveryWrappingKey: iterations: 50_000
RECOVERY_ITERATIONS == 50000

\* ------------------------------------------------------- the fixed world
NULL == "null"

Users == {"u1", "u2"}
Devices == {"dA", "dB", "dC"}

\* devices.user_id
DeviceOwner == [d \in Devices |-> IF d = "dC" THEN "u2" ELSE "u1"]

\* The devices that run the extension and hold a push channel.
ExtDevices == {"dA"}

\* The device whose background sync engine is modelled, and what its browser
\* can hold: the number of open http(s) tabs.
SyncDevice == "dA"
TabStates == {0, 1, 2}

NoReq == 0

\* What a ciphertext holds: the account whose DataKey encrypted it and the
\* number of tab records inside.  The relay never reads this table.
\* blob_d authenticates under no account's key (a damaged ciphertext, or one
\* of a key since replaced); blob_e is the encryption of an empty tab list.
Plain == [b \in {"blob_a", "blob_b", "blob_c", "blob_d", "blob_e"} |->
            CASE b = "blob_a" -> [key |-> "u1", tabs |-> 1]
              [] b = "blob_b" -> [key |-> "u1", tabs |-> 2]
              [] b = "blob_c" -> [key |-> "u2", tabs |-> 1]
              [] b = "blob_d" -> [key |-> NULL, tabs |-> 1]
              [] b = "blob_e" -> [key |-> "u1", tabs |-> 0]]

\* The snapshots table after each device has synced once.
InitSnapshots ==
    { [id |-> "sA", user_id |-> "u1", device_id |-> "dA", captured_at |-> 0,
       iv |-> "iv_a", encrypted_blob |-> "blob_a"],
      [id |-> "sB", user_id |-> "u1", device_id |-> "dB", captured_at |-> 0,
       iv |-> "iv_b", encrypted_blob |-> "blob_b"],
      [id |-> "sC", user_id |-> "u2", device_id |-> "dC", captured_at |-> 0,
       iv |-> "iv_c", encrypted_blob |-> "blob_c"] }

\* The bodies of POST /restore the model sends: <<caller, target, snapshot_id>>
\* (NULL: no snapshot_id, the latest snapshot of the target is used).
CreateInputs ==
    { <<"u1", "dA", "sB">>,    \* the multi-device test: B's snapshot onto A
      <<"u1", "dA", NULL>>,    \* latest snapshot of the target
      <<"u2", "dA", "sC">>,    \* another account names dA as target
      <<"u1", "dA", "sC">>,    \* a snapshot of another account
      <<"u1", "dA", "sX">> }   \* an unknown snapshot id

\* users.snapshot_retention as the accounts have set it (0: unlimited)
InitialRetention == [u \in Users |-> IF u = "u1" THEN 1 ELSE 0]

\* PATCH /account/retention accepts 0..500
RetentionSettings == {0, 1, 2}

\* The ciphertext each device's extension uploads, with its iv
DeviceBlob == [d \in Devices |->
                 CASE d = "dA" -> [iv |-> "iv_a", encrypted_blob |-> "blob_a"]
                   [] d = "dB" -> [iv |-> "iv_b", encrypted_blob |-> "blob_b"]
                   [] d = "dC" -> [iv |-> "iv_c", encrypted_blob |-> "blob_c"]]

\* The bodies of POST /snapshots: <<caller, device_id, captured_at>>.  The
\* client sets captured_at, so uploads need not arrive in captured_at order.
UploadInputs ==
    { <<DeviceOwner[d], d, t>> : d \in Devices, t \in 0..MaxCapturedAt }
    \cup { <<"u2", "dA", 0>> }   \* a device of another account

\* The bodies of POST /restore sent to a relay that starts without snapshots
\* (uploaded snapshots are numbered "1", "2", ...)
SnapCreateInputs ==
    { <<"u1", "dA", NULL>>, <<"u2", "dC", NULL>>, <<"u1", "dA", "1">>,
      <<"u2", "dA", "1">>, <<"u1", "dA", "sX">> }

\* The callers of GET /restore/pending: <<caller, device_id>>
PollInputs == { <<"u1", "dA">>, <<"u2", "dA">>, <<"u1", "dB">> }

\* The bodies of PATCH /restore/:id : <<status, error_msg>>
MSG_NO_KEY == "Master key not available - please re-login"
MSG_DECRYPT == "Decryption failed"
MSG_NO_TABS == "Snapshot contains no tabs"
Outcomes ==
    { <<"completed", NULL>>,
      <<"failed", MSG_NO_KEY>> }

Terminal == {"completed", "failed", "expired"}

VARIABLES
    now,        \* the clock (NOW() of the store, Date of the server)
    snapshots,  \* table snapshots
    requests,   \* table restore_requests; a row's id is its index
    calls,      \* the createRequest invocations, each with its position
    response,   \* the HTTP exchange the step just taken completed, if any
    stream,     \* per extension device: the state of its push channel
    connects,   \* per extension device: the connections opened so far
    initRes,    \* per channel: the row its initial check read, not yet sent
    pushQ,      \* per channel: the emitted requests whose listener has not queried yet
    inbox,      \* per extension device: the events received and not yet handled
    masterKey,  \* per extension device: the DataKey is in the local store
    delivered,  \* history: the request ids each device has received
    chanAt,     \* history: per request, the target's connection when it was emitted
    uploads,    \* the snapshots inserted so far (the next snapshot's id)
    chromeTabs, \* the browser of SyncDevice: its open http(s) tabs
    loggedIn,   \* storage.is_logged_in with the token and device id
    isDirty,    \* background: let isDirty
    lastUploadedHash,   \* background: let lastUploadedHash
    debounce,   \* alarm vaulttabs-debounce: seconds left, -1 when not set
    syncStale,  \* Date.now() - storage.last_sync_at > MAX_SYNC_AGE_MS
    passes,     \* the performSync invocations in flight, each with its position
    captures,   \* the capturedAt timestamps taken so far (the device's clock)
    events,     \* the tab and window events raised so far
    restarts,   \* the service worker restarts so far
    failures,   \* the failed uploads so far
    logins,     \* the logins so far
    sinceEvent, \* history: seconds since the last tab event, up to the window
    burst,      \* history: the tab events less than a window apart, and the
                \* debounce-triggered passes since the last of them
    prevPass,   \* history: the pass that ended last, and whether it uploaded
    users,      \* table users: the row of the account, NoUser before it registers
    received,   \* history: the request bodies the relay has been sent
    dataKey,    \* history: the key generateMasterKey returned at registration
    storedKey,  \* the key saveMasterKey wrote to the local store of SyncDevice
    codec,      \* a snapshot on its way through encryptSnapshot and back
    devices,    \* table devices: the ids of its rows
    snapshot_retention, \* users.snapshot_retention of each account
    notified,   \* history: the browser event or alarm dispatched last, with
                \* the parity of their number
    last_error, \* storage.last_error of SyncDevice
    isStreamActive,     \* background: let isStreamActive
    setups,     \* the setupRestoreStream invocations at their await
    openingStreams,     \* the apiConnectRestoreStream calls before their response
    openStreams,    \* the push-channel connections the worker is reading
    restore,    \* dashboard: the state restore (its phase and request)
    pollRef,    \* dashboard: pollRef.current
    intervals,  \* dashboard: the setInterval timers not cleared
    polls,      \* dashboard: the status polls awaiting their response
    timers      \* dashboard: the setTimeout callbacks not yet run

relayVars == <<now, snapshots, requests, calls, response>>
pushVars == <<stream, connects, initRes, pushQ, inbox, masterKey, delivered, chanAt>>
engineVars == <<chromeTabs, loggedIn, isDirty, lastUploadedHash, debounce, syncStale,
                passes, captures, events, restarts, failures, logins,
                sinceEvent, burst, prevPass>>
accountVars == <<users, received, dataKey, storedKey>>
channelVars == <<isStreamActive, setups, openingStreams, openStreams>>
requesterVars == <<restore, pollRef, intervals, polls, timers>>
extraVars == <<last_error, channelVars, requesterVars>>
moreVars == <<accountVars, codec, devices, snapshot_retention, notified, extraVars>>
syncVars == <<uploads, engineVars, moreVars>>
vars == <<relayVars, pushVars, syncVars>>

CallIds == 1..MaxCalls
\* performSync is not guarded against re-entry: two invocations can overlap
PassIds == {1, 2}
ReqIds == 1..Len(requests)

\* ------------------------------------------------- snapshot repository
\* A lookup by id that falls back to every row (breaks C12)
SnapshotFindAny(id) == snapshots

\* PostgresSnapshotRepository.findById: the rows with that id (0 or 1)
SnapshotFindById(id) == {s \in snapshots : s.id = id}

\* A lookup by device without the ORDER BY (breaks C11)
SnapshotFindAnyOfDevice(deviceId) == {s \in snapshots : s.device_id = deviceId}

\* PostgresSnapshotRepository.findByDeviceId:
\* ORDER BY captured_at DESC LIMIT 1; rows that tie are all possible answers
SnapshotFindByDeviceId(deviceId) ==
    {s \in snapshots :
        /\ s.device_id = deviceId
        /\ \A o \in snapshots : o.device_id = deviceId => o.captured_at <= s.captured_at}

\* ORDER BY captured_at DESC LIMIT n over a set of rows: the sets of rows the
\* statement may return (rows that tie at the cut are all possible)
TopByCapturedAt(rows, n) ==
    {k \in SUBSET rows :
        /\ Cardinality(k) = IF Cardinality(rows) < n THEN Cardinality(rows) ELSE n
        /\ \A x \in k, y \in rows \ k : y.captured_at <= x.captured_at}

\* PostgresSnapshotRepository.create: the table with the new row
SnapshotCreate(snapshot) ==
    snapshots \cup {[id |-> ToString(uploads + 1),
                     user_id |-> snapshot.user_id,
                     device_id |-> snapshot.device_id,
                     captured_at |-> snapshot.captured_at,
                     iv |-> snapshot.iv,
                     encrypted_blob |-> snapshot.encrypted_blob]}

\* A pruning that keeps the keepCount oldest rows (breaks C27)
deleteNewSnapshots(table, deviceId, keepCount) ==
    LET mine == {s \in table : s.device_id = deviceId}
    IN  {(table \ mine) \cup k :
            k \in {k \in SUBSET mine :
                      /\ Cardinality(k) = IF Cardinality(mine) < keepCount
                                          THEN Cardinality(mine) ELSE keepCount
                      /\ \A x \in k, y \in mine \ k : x.captured_at <= y.captured_at}}

\* PostgresSnapshotRepository.deleteOldSnapshots applied to a table: the
\* tables it may leave
deleteOldSnapshots(table, deviceId, keepCount) ==
    LET mine == {s \in table : s.device_id = deviceId}
    IN  {(table \ mine) \cup k : k \in TopByCapturedAt(mine, keepCount)}

\* A DISTINCT ON that forgets the device column: every row of the user
findAllByUserId(userId) ==
    {{s \in snapshots : s.user_id = userId}}

\* PostgresSnapshotRepository.findLatestByUserId: DISTINCT ON (device_id)
\* ... ORDER BY device_id, captured_at DESC.  The results the statement
\* may return, each a set of rows
findLatestByUserId(userId) ==
    LET mine == {s \in snapshots : s.user_id = userId}
        devs == {s.device_id : s \in mine}
        pick == {f \in [devs -> mine] :
                    \A d \in devs :
                        /\ f[d].device_id = d
                        /\ \A o \in mine :
                              o.device_id = d => o.captured_at <= f[d].captured_at}
    IN  {{f[d] : d \in devs} : f \in pick}

\* --------------------------------------------------- restore repository
\* Faulty variants of three statements below.  Each breaks the property
\* named with it, which shows that the property rests on that statement.
\* An UPDATE that expires nothing (breaks C4)
expireNothing(targetDeviceId) == requests

\* An INSERT whose row has already run out (breaks C10)
createElapsed(request) ==
    Append(requests,
           [user_id |-> request.user_id,
            source_device_id |-> request.source_device_id,
            target_device_id |-> request.target_device_id,
            snapshot_id |-> request.snapshot_id,
            status |-> "pending",
            error_msg |-> NULL,
            created_at |-> now,
            expires_at |-> now])

\* A WHERE clause without expires_at > NOW() (breaks C5)
PendingRowsAnyAge(userId, targetDeviceId) ==
    {i \in ReqIds :
        /\ \E s \in snapshots : s.id = requests[i].snapshot_id
        /\ requests[i].target_device_id = targetDeviceId
        /\ requests[i].user_id = userId
        /\ requests[i].status = "pending"}

\* PostgresRestoreRepository.expireExistingPending
expireExistingPending(targetDeviceId) ==
    [i \in ReqIds |->
        IF requests[i].target_device_id = targetDeviceId /\ requests[i].status = "pending"
        THEN [requests[i] EXCEPT !.status = "expired"]
        ELSE requests[i]]

\* PostgresRestoreRepository.create: status 'pending', created_at DEFAULT NOW()
create(request) ==
    Append(requests,
           [user_id |-> request.user_id,
            source_device_id |-> request.source_device_id,
            target_device_id |-> request.target_device_id,
            snapshot_id |-> request.snapshot_id,
            status |-> "pending",
            error_msg |-> NULL,
            created_at |-> now,
            expires_at |-> request.expires_at])

\* errorMsg || null : undefined and the empty string both give null
OrNull(errorMsg) == IF errorMsg = "" THEN NULL ELSE errorMsg

\* PostgresRestoreRepository.updateStatus: WHERE id = ${id}, nothing else;
\* SET status = ${status}, error_msg = ${errorMsg || null}
updateStatus(id, status, errorMsg) ==
    [i \in ReqIds |->
        IF i = id
        THEN [requests[i] EXCEPT !.status = status,
                                 !.error_msg = OrNull(errorMsg)]
        ELSE requests[i]]

\* The rows the WHERE clause of findPendingByTargetDeviceWithSnapshot keeps:
\* JOIN snapshots, target, owner, status = 'pending', expires_at > NOW()
PendingRows(userId, targetDeviceId) ==
    {i \in ReqIds :
        /\ \E s \in snapshots : s.id = requests[i].snapshot_id
        /\ requests[i].target_device_id = targetDeviceId
        /\ requests[i].user_id = userId
        /\ requests[i].status = "pending"
        /\ requests[i].expires_at > now}

\* PostgresRestoreRepository.findPendingByTargetDeviceWithSnapshot:
\* ORDER BY r.created_at DESC LIMIT 1.  The result is the set of ids the
\* statement may return: empty, or the rows with the greatest created_at.
findPendingByTargetDeviceWithSnapshot(userId, targetDeviceId) ==
    {i \in PendingRows(userId, targetDeviceId) :
        \A j \in PendingRows(userId, targetDeviceId) :
            requests[j].created_at <= requests[i].created_at}

\* The row of findPendingByTargetDeviceWithSnapshot as the routes send it:
\* request {id, snapshot_id, snapshot_iv, encrypted_blob}
Payload(i) ==
    LET s == CHOOSE s \in snapshots : s.id = requests[i].snapshot_id
    IN  [id |-> i, snapshot_id |-> s.id, snapshot_iv |-> s.iv,
         encrypted_blob |-> s.encrypted_blob]

\* ------------------------------------------- the account's key envelopes

\* What the user may type as a password, and what the random generators of
\* the client may return
Passwords == {"pw1", "pw2"}
MasterKeys == {"K1", "K2"}
Salts == {"salt1", "salt2"}
Ivs == {"iv1", "iv2"}
RecoveryCodes == {"VAULT-ABCD", "VAULT-WXYZ"}
\* What the user may type as a recovery code
TypedCodes == RecoveryCodes \cup {"vault abcd"}

AuthenticationError == "OperationError"

\* crypto.ts: code.replace(/-/g, '').toUpperCase()
NormalizeCode(code) ==
    CASE code = "VAULT-ABCD" -> "VAULTABCD"
      [] code = "VAULT-WXYZ" -> "VAULTWXYZ"
      [] code = "vault abcd" -> "VAULT ABCD"

\* recover/page.tsx: hyphens and whitespace removed, upper case
normalizeRecoveryCode(raw) ==
    CASE raw = "VAULT-ABCD" -> "VAULTABCD"
      [] raw = "VAULT-WXYZ" -> "VAULTWXYZ"
      [] raw = "vault abcd" -> "VAULTABCD"

\* PBKDF2-SHA256: the key is a function of the secret, the salt and the
\* iteration count, and of nothing else
deriveKey(secret, salt, iterations) ==
    [secret |-> secret, salt |-> salt, iterations |-> iterations]

deriveWrappingKey(password, salt) == deriveKey(password, salt, PBKDF2_ITERATIONS)

deriveRecoveryWrappingKey(recoveryCode, salt) ==
    deriveKey(NormalizeCode(recoveryCode), salt, RECOVERY_ITERATIONS)

NoKey == deriveKey(NULL, NULL, 0)

\* AES-GCM wrapKey: the ciphertext carries the key, and its tag binds the
\* wrapping key and the iv
encryptMasterKey(key, wrappingKey, iv) ==
    [encryptedMasterKey |-> [key |-> key, under |-> wrappingKey, iv |-> iv,
                             intact |-> TRUE],
     iv |-> iv]

\* An unwrap that opens every envelope (breaks C25)
decryptMasterKeyAnyKey(encrypted, iv, wrappingKey) ==
    encrypted.key

\* AES-GCM unwrapKey: throws unless the tag verifies
decryptMasterKey(encrypted, iv, wrappingKey) ==
    IF encrypted.intact /\ encrypted.under = wrappingKey /\ encrypted.iv = iv
    THEN encrypted.key
    ELSE AuthenticationError

encryptMasterKeyForRecovery(key, recoveryCode, salt, iv) ==
    [encryptedMasterKey |->
        encryptMasterKey(key, deriveRecoveryWrappingKey(recoveryCode, salt), iv)
            .encryptedMasterKey,
     iv |-> iv, salt |-> salt]

decryptMasterKeyWithRecoveryCode(encrypted, iv, salt, recoveryCode) ==
    decryptMasterKey(encrypted, iv, deriveRecoveryWrappingKey(recoveryCode, salt))

\* recover/page.tsx: unwrapKey and wrapKey of the recovery page
unwrapMasterKey(encryptedKey, iv, wrappingKey) ==
    decryptMasterKey(encryptedKey, iv, wrappingKey)

\* A re-wrap that wraps a newly generated key (breaks C23)
wrapMasterKeyRegenerated(key, wrappingKey, iv) ==
    encryptMasterKey(CHOOSE k \in MasterKeys : k # key, wrappingKey, iv)

wrapMasterKey(key, wrappingKey, iv) ==
    [encryptedMasterKey |-> [key |-> key, under |-> wrappingKey, iv |-> iv,
                             intact |-> TRUE],
     iv |-> iv]

hashRecoveryCode(code) == "sha256(" \o NormalizeCode(code) \o ")"

\* recover/page.tsx hashes the code it has normalised itself
pwaHashRecoveryCode(normalized) == "sha256(" \o normalized \o ")"

\* serverCrypto: scrypt with a salt of its own; verifyPassword recomputes it
hashPassword(password) == [scrypt |-> password]
verifyPassword(password, storedHash) == storedHash = hashPassword(password)

NoEnvelope ==
    [encrypted |-> [key |-> NULL, under |-> NoKey, iv |-> NULL, intact |-> FALSE],
     iv |-> NULL, salt |-> NULL]

NoUser ==
    [email |-> NULL, password_hash |-> hashPassword(NULL),
     password_envelope |-> NoEnvelope,
     has_recovery |-> FALSE, recovery_envelope |-> NoEnvelope,
     recovery_key_hash |-> hashPassword(NULL)]

NothingReceived == [passwords |-> {}, envelopes |-> {}, hashes |-> {}]

\* The body of POST /auth/register as both clients build it
RegisterBody(password, key, salt, iv, code, rsalt, riv) ==
    [password |-> password,
     password_envelope |->
        [encrypted |-> encryptMasterKey(key, deriveWrappingKey(password, salt), iv)
                          .encryptedMasterKey,
         iv |-> iv, salt |-> salt],
     recovery_envelope |->
        [encrypted |-> encryptMasterKeyForRecovery(key, code, rsalt, riv)
                          .encryptedMasterKey,
         iv |-> riv, salt |-> rsalt],
     recovery_key_hash |-> hashRecoveryCode(code)]

\* AuthService.register: the row it inserts
AuthServiceRegister(body) ==
    [email |-> "a@x", password_hash |-> hashPassword(body.password),
     password_envelope |-> body.password_envelope,
     has_recovery |-> TRUE, recovery_envelope |-> body.recovery_envelope,
     recovery_key_hash |-> hashPassword(body.recovery_key_hash)]

\* The state after the account of SyncDevice registered on it
AccountRegistered ==
    LET body == RegisterBody("pw1", "K1", "salt1", "iv1", "VAULT-ABCD", "salt2", "iv2")
    IN  /\ users = AuthServiceRegister(body)
        /\ received = [passwords |-> {"pw1"},
                       envelopes |-> {body.password_envelope, body.recovery_envelope},
                       hashes |-> {body.recovery_key_hash}]
        /\ dataKey = "K1"
        /\ storedKey = "K1"

\* ------------------------------------------------- the snapshot codec

\* A tab is the sequence of its members <<name, value>> in the order the
\* object literal of performSync lists them; tab.favIconUrl may be undefined
TabValues ==
    {<< <<"url", u>>, <<"title", t>>, <<"favIconUrl", f>> >> :
        u \in {"https://a", "https://b"}, t \in {"A"},
        f \in {"undefined", "https://a/ico"}}

RECURSIVE TabLists(_)
TabLists(n) ==
    IF n = 0 THEN {<<>>}
    ELSE TabLists(n - 1)
            \cup {Append(l, t) : l \in {x \in TabLists(n - 1) : Len(x) = n - 1},
                                 t \in TabValues}

TabFields == {"url", "title", "favIconUrl"}

\* tab[name] as JavaScript reads it: undefined when the member is missing
Member(tab, name) ==
    IF \E i \in 1..Len(tab) : tab[i][1] = name
    THEN tab[CHOOSE i \in 1..Len(tab) : tab[i][1] = name][2]
    ELSE "undefined"

IsDefined(member) == member[2] # "undefined"
IsNotIcon(member) == member[1] # "favIconUrl"

\* A serialisation that leaves the icons out (breaks C24)
JSONstringifyNoIcons(list) ==
    [i \in 1..Len(list) |-> SelectSeq(list[i], IsNotIcon)]

\* JSON.stringify of an array of objects: the elements in order, each with its
\* members in order, the members whose value is undefined left out
JSONstringify(list) ==
    [i \in 1..Len(list) |-> SelectSeq(list[i], IsDefined)]

\* JSON.parse: the array the text denotes
JSONparse(json) == json.text

TextEncode(json) == [utf8 |-> [text |-> json]]
TextDecode(bytes) == bytes.utf8

bufferToBase64(buffer) == [base64 |-> buffer]
base64ToBuffer(base64) == base64.base64

\* AES-GCM: the ciphertext with its tag, bound to the key and the iv
aesGcmEncrypt(key, iv, plaintext) ==
    [key |-> key, iv |-> iv, plaintext |-> plaintext, intact |-> TRUE]

encryptSnapshotWithIv(list, key, iv) ==
    [encryptedBlob |-> bufferToBase64(aesGcmEncrypt(key, base64ToBuffer(bufferToBase64(iv)),
                                                    TextEncode(JSONstringify(list)))),
     iv |-> bufferToBase64(iv)]

\* crypto.subtle.decrypt throws unless the tag verifies
decryptSnapshotWithIv(encryptedBlobBase64, ivBase64, key) ==
    LET ciphertext == base64ToBuffer(encryptedBlobBase64)
        iv == base64ToBuffer(ivBase64)
    IN  IF ciphertext.intact /\ ciphertext.key = key /\ ciphertext.iv = iv
        THEN [ok |-> TRUE, tabs |-> JSONparse(TextDecode(ciphertext.plaintext))]
        ELSE [ok |-> FALSE, tabs |-> <<>>]

\* The two lists read the same: as many tabs, and tab by tab every member
SameTabs(a, b) ==
    /\ Len(a) = Len(b)
    /\ \A i \in 1..Len(a) : \A f \in TabFields : Member(a[i], f) = Member(b[i], f)

NoBlob == encryptSnapshotWithIv(<<>>, NULL, NULL)

NoCodec ==
    [pc |-> "idle", tabs |-> <<>>, key |-> NULL, blob |-> NoBlob,
     with |-> NULL, out |-> [ok |-> FALSE, tabs |-> <<>>]]

\* ------------------------------------------- events of the browser

\* The tab and window events the worker has a listener for
Listeners ==
    {"tabs.onCreated", "tabs.onRemoved", "tabs.onUpdated", "tabs.onMoved",
     "tabs.onAttached", "tabs.onDetached", "windows.onCreated", "windows.onRemoved"}

\* onActivated is raised by the browser and not listened to
BrowserEvents == Listeners \cup {"tabs.onActivated"}

\* The member an onUpdated changeInfo carries ("none" for the other events)
ChangeInfos == {"url", "title", "status", "favIconUrl", "pinned"}

EventInputs ==
    {<<e, "none">> : e \in BrowserEvents \ {"tabs.onUpdated"}}
        \cup {<<"tabs.onUpdated", c>> : c \in ChangeInfos}

\* A listener table that treats every update as a change (breaks C29)
CallsMarkDirtyOnAnyUpdate(event, changeInfo) == event \in Listeners

\* The event reaches a listener and the listener calls markDirty
CallsMarkDirty(event, changeInfo) ==
    /\ event \in Listeners
    /\ event = "tabs.onUpdated" => changeInfo \in {"url", "title"}

\* The event can change the set of open http(s) tabs
ChangesTabs(event, changeInfo) ==
    \/ event \in {"tabs.onCreated", "tabs.onRemoved", "windows.onCreated",
                  "windows.onRemoved"}
    \/ event = "tabs.onUpdated" /\ changeInfo = "url"

NoEvent == [event |-> "none", changeInfo |-> "none", parity |-> 0]

\* ------------------------------------------------------------- the state
IdleCall == [pc |-> "idle", user |-> NULL, target |-> NULL, given |-> NULL,
             snapshot |-> NULL,
             superseded |-> {}, req |-> NoReq]
DoneCall == [IdleCall EXCEPT !.pc = "done"]

NoResponse == [route |-> "none"]
NoRow == [id |-> NoReq]

IdlePass == [pc |-> "idle", trigger |-> NULL, tabs |-> 0, capturedAt |-> 0]
NoPass == [tabs |-> 0, uploaded |-> FALSE]
NoBurst == [events |-> 0, syncs |-> 0]

\* The sync engine when the service worker of a logged-in device that never
\* synced has started with t tabs open: the module's initial values, the
\* fallback alarm set, performSync('startup') called.
EngineStarted(t) ==
    /\ chromeTabs = t
    /\ loggedIn = TRUE
    /\ isDirty = FALSE
    /\ lastUploadedHash = NULL
    /\ debounce = -1
    /\ syncStale = TRUE
    /\ passes = [p \in PassIds |->
                    IF p = 1 THEN [IdlePass EXCEPT !.pc = "read",
                                                   !.trigger = "startup"]
                    ELSE IdlePass]
    /\ captures = 0
    /\ events = 0
    /\ restarts = 0
    /\ failures = 0
    /\ logins = 0
    /\ sinceEvent = DEBOUNCE_SECONDS
    /\ burst = NoBurst
    /\ prevPass = NoPass

\* chrome.storage.local.set({key: value}) as saveToStorage calls it: a
\* property whose value is undefined is left out of what is written, so the
\* stored value stays
Undefined == "undefined"
storageSet(stored, value) == IF value = Undefined THEN stored ELSE value

\* startup: the key is gone from IndexedDB
MSG_SESSION_EXPIRED == "Session expired. Please log in again."

\* The dashboard before any restore: useState({phase: 'idle'}), useRef(null)
IdleRestore == [phase |-> "idle", requestId |-> NoReq]
NoRestore ==
    /\ restore = IdleRestore
    /\ pollRef = NoReq
    /\ intervals = {}
    /\ polls = {}
    /\ timers = {}

\* A worker that has just started: no connection, no call in flight
NoChannel ==
    /\ isStreamActive = FALSE
    /\ setups = 0
    /\ openingStreams = 0
    /\ openStreams = 0

\* The extension as installed: nobody has logged in on it
EngineLoggedOut ==
    /\ chromeTabs = 1
    /\ loggedIn = FALSE
    /\ isDirty = FALSE
    /\ lastUploadedHash = NULL
    /\ debounce = -1
    /\ syncStale = TRUE
    /\ passes = [p \in PassIds |-> IdlePass]
    /\ captures = 0
    /\ events = 0
    /\ restarts = 0
    /\ failures = 0
    /\ logins = 0
    /\ sinceEvent = DEBOUNCE_SECONDS
    /\ burst = NoBurst
    /\ prevPass = NoPass

Init ==
    /\ now = 0
    /\ snapshots = InitSnapshots
    /\ requests = <<>>
    /\ calls = [c \in CallIds |-> IdleCall]
    /\ response = NoResponse
    /\ uploads = 0
    /\ EngineStarted(1)
    /\ stream = [d \in ExtDevices |-> "closed"]
    /\ connects = [d \in ExtDevices |-> 0]
    /\ initRes = [d \in ExtDevices |-> NoRow]
    /\ pushQ = [d \in ExtDevices |-> {}]
    /\ inbox = [d \in ExtDevices |-> EmptyBag]
    /\ masterKey = [d \in ExtDevices |-> TRUE]
    /\ delivered = [d \in ExtDevices |-> {}]
    /\ chanAt = <<>>
    /\ AccountRegistered
    /\ codec = NoCodec
    /\ devices = Devices
    /\ snapshot_retention = InitialRetention
    /\ notified = NoEvent
    /\ last_error = NULL
    /\ NoChannel
    /\ NoRestore

\* ------------------------------------------------------------- the clock
\* The clock moves one expiry window at a time.
Tick ==
    /\ now < MaxTicks * EXPIRY_MINUTES
    /\ now' = now + EXPIRY_MINUTES
    /\ response' = NoResponse
    /\ UNCHANGED <<snapshots, requests, calls, pushVars>>
    /\ UNCHANGED syncVars

\* ------------------------------------- POST /restore -> createRequest
\* Step 1: the snapshot lookup and the ownership test.  A failure is the
\* route's 400 {error: 'No snapshots found'}.
CreateResolve(c, in) ==
    /\ calls[c].pc = "idle"
    /\ \A b \in CallIds : b < c => calls[b].pc # "idle"
    /\ LET userId == in[1]
           targetDeviceId == in[2]
           snapshotId == in[3]
           found == IF snapshotId # NULL THEN SnapshotFindById(snapshotId)
                    ELSE SnapshotFindByDeviceId(targetDeviceId)
           usable == {s \in found : s.user_id = userId}
       IN  \/ /\ usable = {}
              /\ calls' = [calls EXCEPT ![c] = DoneCall]
              /\ response' = [route |-> "POST /restore", code |-> 400,
                              error |-> "No snapshots found"]
           \/ /\ \E s \in usable :
                    calls' = [calls EXCEPT ![c] =
                       [IdleCall EXCEPT !.pc = "expire", !.user = userId,
                           !.target = targetDeviceId, !.given = snapshotId,
                           !.snapshot = s.id,
                           !.superseded =
                               {i \in ReqIds :
                                   /\ requests[i].user_id = userId
                                   /\ requests[i].target_device_id = targetDeviceId
                                   /\ requests[i].status = "pending"}]]
              /\ response' = NoResponse
    /\ UNCHANGED <<now, snapshots, requests, pushVars>>
    /\ UNCHANGED syncVars

\* Step 2: expireExistingPending
CreateExpire(c) ==
    /\ calls[c].pc = "expire"
    /\ requests' = expireExistingPending(calls[c].target)
    /\ calls' = [calls EXCEPT ![c].pc = "insert"]
    /\ response' = NoResponse
    /\ UNCHANGED <<now, snapshots, pushVars>>
    /\ UNCHANGED syncVars

\* Step 3: expiresAt = new Date() + 5 minutes, restoreRepository.create
\* (the server's Date and the store's NOW() read the same minute)
CreateInsert(c) ==
    /\ calls[c].pc = "insert"
    /\ LET s == CHOOSE s \in snapshots : s.id = calls[c].snapshot
       IN  requests' = create([user_id |-> calls[c].user,
                               source_device_id |-> s.device_id,
                               target_device_id |-> calls[c].target,
                               snapshot_id |-> s.id,
                               expires_at |-> now + EXPIRY_MINUTES])
    /\ calls' = [calls EXCEPT ![c].pc = "emit", ![c].req = Len(requests) + 1]
    /\ response' = NoResponse
    /\ UNCHANGED <<now, snapshots, pushVars>>
    /\ UNCHANGED syncVars

\* Step 4: events.emit(`restore:${targetDeviceId}`, request) calls the
\* listener of every channel registered for the target; return request; the
\* route replies 201 with the row as the INSERT returned it
CreateEmit(c) ==
    /\ calls[c].pc = "emit"
    /\ calls' = [calls EXCEPT ![c] = DoneCall]
    /\ pushQ' = [d \in ExtDevices |->
                    IF d = calls[c].target /\ stream[d] = "listening"
                    THEN pushQ[d] \cup {calls[c].req} ELSE pushQ[d]]
    /\ chanAt' = chanAt @@ (calls[c].req :>
                    IF calls[c].target \in ExtDevices /\ stream[calls[c].target] # "closed"
                    THEN connects[calls[c].target] ELSE 0)
    /\ response' = [route |-> "POST /restore", code |-> 201,
                    request_id |-> calls[c].req, status |-> "pending"]
    /\ UNCHANGED <<now, snapshots, requests, stream, connects, initRes, inbox,
                   masterKey, delivered>>
    /\ UNCHANGED syncVars

\* ------------------------------ PATCH /restore/:id -> completeRequest
\* completeRequest ignores userId; the route replies 200 unless it throws
PatchRestore(userId, id, out) ==
    /\ id \in ReqIds
    /\ requests' = updateStatus(id, out[1], out[2])
    /\ response' = [route |-> "PATCH /restore/:id", user |-> userId,
                    request_id |-> id, status |-> out[1],
                    error_msg |-> out[2], code |-> 200]
    /\ UNCHANGED <<now, snapshots, calls, pushVars>>
    /\ UNCHANGED syncVars

\* ---------------------------------- GET /restore/:id -> getRequestStatus
\* getRequestStatus ignores userId: findById is WHERE id = ${id}; the route
\* replies 404 when it throws 'Restore request not found'
GetRestoreStatus(userId, id) ==
    /\ response' = IF id \in ReqIds
                   THEN [route |-> "GET /restore/:id", user |-> userId,
                         request_id |-> id, code |-> 200,
                         request |-> requests[id]]
                   ELSE [route |-> "GET /restore/:id", user |-> userId,
                         request_id |-> id, code |-> 404]
    /\ UNCHANGED <<now, snapshots, requests, calls, pushVars>>
    /\ UNCHANGED syncVars

\* ------------------------------------------------ GET /restore/pending
GetRestorePending(userId, deviceId) ==
    /\ LET found == findPendingByTargetDeviceWithSnapshot(userId, deviceId)
       IN  \/ /\ found = {}
              /\ response' = [route |-> "GET /restore/pending", user |-> userId,
                              device_id |-> deviceId, code |-> 200,
                              pending |-> FALSE]
           \/ \E i \in found :
                 response' = [route |-> "GET /restore/pending", user |-> userId,
                              device_id |-> deviceId, code |-> 200,
                              pending |-> TRUE, request |-> Payload(i)]
    /\ UNCHANGED <<now, snapshots, requests, calls, pushVars>>
    /\ UNCHANGED syncVars

\* ------------------------------------------------------------ runCleanup
\* Task 1: expire stale restore_requests.
\* Task 2 of runCleanup: for every account with snapshot_retention > 0 and
\* each of its devices the DELETE ... NOT IN (... ORDER BY captured_at DESC
\* LIMIT retention); the tables the loop may leave
PruneByRetention(table) ==
    {t \in SUBSET table :
        \A d \in Devices :
            LET mine == {s \in table : s.device_id = d}
                kept == {s \in t : s.device_id = d}
            IN  IF d \in devices /\ snapshot_retention[DeviceOwner[d]] > 0
                THEN kept \in TopByCapturedAt(mine, snapshot_retention[DeviceOwner[d]])
                ELSE kept = mine}

\* restore_requests.snapshot_id ... ON DELETE SET NULL
SnapshotsDeleted(rows, kept) ==
    [i \in DOMAIN rows |->
        IF rows[i].snapshot_id \in {s.id : s \in kept}
        THEN rows[i]
        ELSE [rows[i] EXCEPT !.snapshot_id = NULL]]

\* runCleanup: the stale pending requests expire, the snapshots beyond the
\* retention are pruned (no device is 90 days unseen, so none is removed)
RunCleanup ==
    /\ \E kept \in PruneByRetention(snapshots) :
          /\ snapshots' = kept
          /\ requests' =
               SnapshotsDeleted(
                 [i \in ReqIds |->
                     IF /\ requests[i].status = "pending"
                        /\ \/ requests[i].expires_at < now
                           \/ requests[i].created_at < now - STALE_MINUTES
                     THEN [requests[i] EXCEPT !.status = "expired"]
                     ELSE requests[i]], kept)
    /\ response' = NoResponse
    /\ UNCHANGED <<now, calls, pushVars>>
    /\ UNCHANGED syncVars

\* --------------------------------------- GET /restore/stream (server)
\* and setupRestoreStream / apiConnectRestoreStream (extension)

\* A worker that connects once and never again (breaks C30)
ConnectsOnce(d) ==
    /\ stream[d] = "closed"
    /\ connects[d] = 0

\* setupRestoreStream gets past its returns: no stream is active and the
\* device is logged in.  It is called at the start of the worker, by the
\* timeout and the reconnect alarm that onDisconnect sets, and by every
\* firing of the fallback alarm.
CanConnect(d) ==
    /\ stream[d] = "closed"
    /\ d = SyncDevice => loggedIn
    /\ connects[d] < MaxConnects

\* setupRestoreStream: the extension opens the channel; the route accepts
\* it and flushes the headers
SetupRestoreStream(d) ==
    /\ CanConnect(d)
    /\ stream' = [stream EXCEPT ![d] = "accepted"]
    /\ connects' = [connects EXCEPT ![d] = @ + 1]
    /\ response' = NoResponse
    /\ UNCHANGED <<now, snapshots, requests, calls, initRes, pushQ, inbox,
                   masterKey, delivered, chanAt>>
    /\ UNCHANGED syncVars

\* Initial Check: the statement of getPendingWithSnapshot(userId, device_id)
StreamInitialCheck(d) ==
    /\ stream[d] = "accepted"
    /\ LET found == findPendingByTargetDeviceWithSnapshot(DeviceOwner[d], d)
       IN  \/ found = {} /\ initRes' = [initRes EXCEPT ![d] = NoRow]
           \/ \E i \in found : initRes' = [initRes EXCEPT ![d] = Payload(i)]
    /\ stream' = [stream EXCEPT ![d] = "checked"]
    /\ response' = NoResponse
    /\ UNCHANGED <<now, snapshots, requests, calls, connects, pushQ, inbox,
                   masterKey, delivered, chanAt>>
    /\ UNCHANGED syncVars

\* The rest of the route: write the initial row if there is one, start the
\* heartbeat, restoreService.events.on(eventName, onRestoreRequest)
StreamListen(d) ==
    /\ stream[d] = "checked"
    /\ IF initRes[d] # NoRow
       THEN /\ inbox' = [inbox EXCEPT ![d] = @ (+) SetToBag({initRes[d]})]
            /\ delivered' = [delivered EXCEPT ![d] = @ \cup {initRes[d].id}]
       ELSE UNCHANGED <<inbox, delivered>>
    /\ initRes' = [initRes EXCEPT ![d] = NoRow]
    /\ stream' = [stream EXCEPT ![d] = "listening"]
    /\ response' = NoResponse
    /\ UNCHANGED <<now, snapshots, requests, calls, connects, pushQ, masterKey, chanAt>>
    /\ UNCHANGED syncVars

\* onRestoreRequest(req): query again, write the row if pending.id === req.id
OnRestoreRequest(d, r) ==
    /\ r \in pushQ[d]
    /\ pushQ' = [pushQ EXCEPT ![d] = @ \ {r}]
    /\ LET found == findPendingByTargetDeviceWithSnapshot(DeviceOwner[d], d)
       IN  \/ /\ r \in found
              /\ inbox' = [inbox EXCEPT ![d] = @ (+) SetToBag({Payload(r)})]
              /\ delivered' = [delivered EXCEPT ![d] = @ \cup {r}]
           \/ /\ found # {r}
              /\ UNCHANGED <<inbox, delivered>>
    /\ response' = NoResponse
    /\ UNCHANGED <<now, snapshots, requests, calls, stream, connects, initRes,
                   masterKey, chanAt>>
    /\ UNCHANGED syncVars

\* request.raw.on('close'): the listener is removed; the extension's
\* onDisconnect clears isStreamActive so that a later setupRestoreStream
\* connects again
StreamClose(d) ==
    /\ stream[d] # "closed"
    /\ stream' = [stream EXCEPT ![d] = "closed"]
    /\ initRes' = [initRes EXCEPT ![d] = NoRow]
    /\ pushQ' = [pushQ EXCEPT ![d] = {}]
    /\ response' = NoResponse
    /\ UNCHANGED <<now, snapshots, requests, calls, connects, inbox, masterKey,
                   delivered, chanAt>>
    /\ UNCHANGED syncVars

\* apiConnectRestoreStream fails to open the stream (no token, fetch throws,
\* response not ok): onDisconnect leaves isStreamActive false and sets the
\* timeout and the reconnect alarm again
StreamOpenFails(d) ==
    /\ CanConnect(d)
    /\ connects' = [connects EXCEPT ![d] = @ + 1]
    /\ response' = NoResponse
    /\ UNCHANGED <<now, snapshots, requests, calls, stream, initRes, pushQ, inbox,
                   masterKey, delivered, chanAt>>
    /\ UNCHANGED syncVars

\* ------------------------------------------------ the extension process
\* decryptSnapshot(req.encrypted_blob, req.snapshot_iv, masterKey): the tab
\* count, or -1 when authentication fails
decryptSnapshot(blob, key) ==
    IF Plain[blob].key = key THEN Plain[blob].tabs ELSE -1

\* What crypto.subtle.decrypt rejects with when the tag does not verify: a
\* DOMException named OperationError (an Error), whose message is the
\* browser's choice: Chromium leaves it empty, Gecko describes the failure.
OperationErrors ==
    { [instanceofError |-> TRUE, message |-> ""],
      [instanceofError |-> TRUE,
       message |-> "The operation failed for an operation-specific reason"] }

\* err instanceof Error ? err.message : 'Decryption failed'
DecryptFailureMsg(err) ==
    IF err.instanceofError THEN err.message ELSE MSG_DECRYPT

\* handleIncomingRestore(req) with the PATCH it sends; opened tells whether
\* openRestoredTabs returned or threw, err is what a failing decrypt throws
HandleIncomingRestore(d, req, opened) ==
    /\ BagIn(req, inbox[d])
    /\ inbox' = [inbox EXCEPT ![d] = @ (-) SetToBag({req})]
    /\ \E err \in OperationErrors :
        LET tabs == decryptSnapshot(req.encrypted_blob, DeviceOwner[d])
            out == IF ~masterKey[d] THEN <<"failed", MSG_NO_KEY>>
                   ELSE IF tabs < 0 THEN <<"failed", DecryptFailureMsg(err)>>
                   ELSE IF tabs = 0 THEN <<"failed", MSG_NO_TABS>>
                   ELSE IF opened THEN <<"completed", NULL>>
                   ELSE <<"none", NULL>>
        IN  IF out[1] = "none"
            THEN /\ response' = NoResponse
                 /\ UNCHANGED requests
            ELSE /\ requests' = updateStatus(req.id, out[1], out[2])
                 /\ response' = [route |-> "PATCH /restore/:id",
                                 user |-> DeviceOwner[d], request_id |-> req.id,
                                 status |-> out[1], error_msg |-> out[2],
                                 code |-> 200]
    /\ UNCHANGED <<now, snapshots, calls, stream, connects, initRes, pushQ,
                   masterKey, delivered, chanAt>>
    /\ UNCHANGED syncVars

\* The browser drops the IndexedDB store that holds the DataKey
EvictMasterKey(d) ==
    /\ masterKey[d]
    /\ masterKey' = [masterKey EXCEPT ![d] = FALSE]
    /\ response' = NoResponse
    /\ UNCHANGED <<now, snapshots, requests, calls, stream, connects, initRes,
                   pushQ, inbox, delivered, chanAt>>
    /\ UNCHANGED syncVars

\* ------------------------------------------- SyncService (the relay)
\* uploadSnapshot: device ownership test, insert, prune to the account's
\* retention.  A pruned snapshot's restore requests keep their row with
\* snapshot_id NULL (ON DELETE SET NULL).
SyncServiceUploadSnapshot(userId, deviceId, capturedAt, iv, encryptedBlob) ==
    IF DeviceOwner[deviceId] # userId
    THEN /\ response' = [route |-> "POST /snapshots", code |-> 403]
         /\ UNCHANGED <<snapshots, requests, uploads>>
    ELSE LET inserted == SnapshotCreate([user_id |-> userId,
                                         device_id |-> deviceId,
                                         captured_at |-> capturedAt,
                                         iv |-> iv,
                                         encrypted_blob |-> encryptedBlob])
             keepCount == IF snapshot_retention[userId] # 0
                          THEN snapshot_retention[userId]
                          ELSE DEFAULT_RETENTION
         IN  \E kept \in deleteOldSnapshots(inserted, deviceId, keepCount) :
                /\ snapshots' = kept
                /\ requests' =
                     [i \in ReqIds |->
                         IF requests[i].snapshot_id \in {s.id : s \in kept}
                         THEN requests[i]
                         ELSE [requests[i] EXCEPT !.snapshot_id = NULL]]
                /\ uploads' = uploads + 1
                /\ response' = [route |-> "POST /snapshots", code |-> 201,
                                snapshot_id |-> ToString(uploads + 1),
                                device_id |-> deviceId]

\* POST /snapshots from a client that is not the modelled engine
UploadSnapshot(userId, deviceId, capturedAt) ==
    /\ uploads < MaxUploads
    /\ SyncServiceUploadSnapshot(userId, deviceId, capturedAt,
                                 DeviceBlob[deviceId].iv,
                                 DeviceBlob[deviceId].encrypted_blob)
    /\ UNCHANGED <<now, calls, pushVars, engineVars, moreVars>>

\* getLatestSnapshots: the rows of findLatestByUserId
GetLatestSnapshots(userId) ==
    /\ \E rows \in findLatestByUserId(userId) :
          response' = [route |-> "GET /snapshots/latest", user |-> userId,
                       snapshots |-> rows]
    /\ UNCHANGED <<now, snapshots, requests, calls, pushVars, syncVars>>

\* ------------------------------------- the extension's sync engine
\* JSON.stringify(tabs) and the SHA-256 of it, as strings
Serialize(t) == "tabs:" \o ToString(t)
hashString(input) == "sha256(" \o input \o ")"

\* encryptSnapshot: the ciphertext of t tab records under the account's DataKey
encryptSnapshot(t, key) ==
    CHOOSE b \in DOMAIN Plain : Plain[b] = [key |-> key, tabs |-> t]

\* A fingerprint test that never matches (breaks C17)
HashNeverSeen(currentHash, lastHash) == FALSE

\* currentHash === lastUploadedHash
HashUnchanged(currentHash, lastHash) == currentHash = lastHash

\* the invocation record the next call of performSync takes
FreePass ==
    CHOOSE p \in PassIds :
        /\ passes[p].pc = "idle"
        /\ \A q \in PassIds : q < p => passes[q].pc # "idle"

HasFreePass == \E p \in PassIds : passes[p].pc = "idle"

\* performSync(trigger) is called: it runs up to its first await
performSync(table, trigger) ==
    [table EXCEPT ![FreePass] = [IdlePass EXCEPT !.pc = "read",
                                                 !.trigger = trigger]]

\* A markDirty that leaves a set debounce alarm as it is (breaks C16)
markDirtyKeepAlarm ==
    /\ isDirty' = TRUE
    /\ debounce' = IF debounce >= 0 THEN debounce ELSE DEBOUNCE_SECONDS

\* markDirty: dirty, and the debounce alarm created anew (a create under the
\* same name replaces the alarm)
markDirty ==
    /\ isDirty' = TRUE
    /\ debounce' = DEBOUNCE_SECONDS

\* A tab or window listener fires; the event may have changed the tabs.
TabEvent(t) ==
    /\ events < MaxEvents
    /\ events' = events + 1
    /\ chromeTabs' = t
    /\ markDirty
    /\ sinceEvent' = 0
    /\ burst' = [events |-> IF sinceEvent < DEBOUNCE_SECONDS
                             THEN burst.events + 1 ELSE 1,
                  syncs |-> 0]
    /\ response' = NoResponse
    /\ UNCHANGED moreVars
    /\ UNCHANGED <<now, snapshots, requests, calls, uploads, pushVars,
                   loggedIn, lastUploadedHash, syncStale, passes,
                   captures, restarts, failures, logins, prevPass>>

\* One second passes.
Second ==
    /\ debounce > 0 \/ sinceEvent < DEBOUNCE_SECONDS
    /\ debounce' = IF debounce > 0 THEN debounce - 1 ELSE debounce
    /\ sinceEvent' = IF sinceEvent < DEBOUNCE_SECONDS THEN sinceEvent + 1
                     ELSE sinceEvent
    /\ response' = NoResponse
    /\ UNCHANGED moreVars
    /\ UNCHANGED <<now, snapshots, requests, calls, uploads, pushVars,
                   chromeTabs, loggedIn, isDirty, lastUploadedHash, syncStale,
                   passes, captures, events, restarts, failures, logins,
                   burst, prevPass>>

\* More than MAX_SYNC_AGE_MS passes.
AgeOut ==
    /\ ~syncStale \/ debounce > 0 \/ sinceEvent < DEBOUNCE_SECONDS
    /\ syncStale' = TRUE
    /\ debounce' = IF debounce > 0 THEN 0 ELSE debounce
    /\ sinceEvent' = DEBOUNCE_SECONDS
    /\ response' = NoResponse
    /\ UNCHANGED moreVars
    /\ UNCHANGED <<now, snapshots, requests, calls, uploads, pushVars,
                   chromeTabs, loggedIn, isDirty, lastUploadedHash, passes,
                   captures, events, restarts, failures, logins,
                   burst, prevPass>>

\* onAlarm, vaulttabs-debounce: a one-shot alarm, not before its time
DebounceAlarm ==
    /\ debounce = 0
    /\ HasFreePass
    /\ debounce' = -1
    /\ passes' = performSync(passes, "debounce")
    /\ burst' = [burst EXCEPT !.syncs = @ + 1]
    /\ response' = NoResponse
    /\ UNCHANGED moreVars
    /\ UNCHANGED <<now, snapshots, requests, calls, uploads, pushVars,
                   chromeTabs, loggedIn, isDirty, lastUploadedHash, syncStale,
                   captures, events, restarts, failures, logins,
                   sinceEvent, prevPass>>

\* onAlarm, vaulttabs-fallback: the periodic alarm
FallbackAlarm ==
    /\ isDirty \/ syncStale
    /\ HasFreePass
    /\ passes' = performSync(passes, "fallback")
    /\ response' = NoResponse
    /\ UNCHANGED moreVars
    /\ UNCHANGED <<now, snapshots, requests, calls, uploads, pushVars,
                   chromeTabs, loggedIn, isDirty, lastUploadedHash, debounce,
                   syncStale, captures, events, restarts, failures, logins,
                   sinceEvent, burst, prevPass>>

\* The popup stores the session and the key and sends START_SYNC.
OnStartSync ==
    /\ ~loggedIn
    /\ logins < MaxLogins
    /\ HasFreePass
    /\ logins' = logins + 1
    /\ loggedIn' = TRUE
    /\ masterKey' = [masterKey EXCEPT ![SyncDevice] = TRUE]
    /\ lastUploadedHash' = NULL
    /\ isDirty' = TRUE
    /\ passes' = performSync(passes, "login")
    /\ prevPass' = NoPass
    /\ response' = NoResponse
    /\ UNCHANGED <<now, snapshots, requests, calls, uploads,
                   stream, connects, initRes, pushQ, inbox, delivered, chanAt,
                   chromeTabs, debounce, syncStale, captures, events, restarts,
                   failures, sinceEvent, burst>>

\* A login of the popup whose key material is left out of the model
StartSync ==
    /\ OnStartSync
    /\ UNCHANGED moreVars

\* The popup logs out: STOP_SYNC (which clears isStreamActive and closes no
\* connection), then clearStorage and clearMasterKey.
StopSync ==
    /\ loggedIn
    /\ logins < MaxLogins
    /\ loggedIn' = FALSE
    /\ masterKey' = [masterKey EXCEPT ![SyncDevice] = FALSE]
    /\ debounce' = -1
    /\ lastUploadedHash' = NULL
    /\ isDirty' = FALSE
    /\ syncStale' = TRUE
    /\ burst' = NoBurst
    /\ prevPass' = NoPass
    /\ response' = NoResponse
    /\ isStreamActive' = FALSE
    /\ last_error' = NULL
    /\ UNCHANGED <<setups, openingStreams, openStreams>>
    /\ UNCHANGED <<accountVars, codec, devices, snapshot_retention, notified, requesterVars>>
    /\ UNCHANGED <<now, snapshots, requests, calls, uploads,
                   stream, connects, initRes, pushQ, inbox, delivered, chanAt,
                   chromeTabs, passes, captures, events, restarts, failures, logins,
                   sinceEvent>>

\* The browser stops the service worker and starts it again: the module's
\* variables are initial, the invocations and connections in flight are
\* gone, the alarms and the storage are kept, and a logged-in worker calls
\* performSync('startup'); one whose key is gone stores the session-expired
\* message instead.
Restart ==
    /\ restarts < MaxRestarts
    /\ restarts' = restarts + 1
    /\ lastUploadedHash' = NULL
    /\ isDirty' = FALSE
    /\ IF loggedIn /\ masterKey[SyncDevice]
       THEN /\ passes' = [p \in PassIds |->
                            IF p = 1 THEN [IdlePass EXCEPT !.pc = "read",
                                                           !.trigger = "startup"]
                            ELSE IdlePass]
            /\ UNCHANGED loggedIn
       ELSE /\ passes' = [p \in PassIds |-> IdlePass]
            /\ loggedIn' = FALSE
    /\ last_error' = IF loggedIn /\ ~masterKey[SyncDevice]
                     THEN storageSet(last_error, MSG_SESSION_EXPIRED)
                     ELSE last_error
    /\ isStreamActive' = FALSE
    /\ setups' = 0
    /\ openingStreams' = 0
    /\ openStreams' = 0
    /\ prevPass' = NoPass
    /\ response' = NoResponse
    /\ UNCHANGED <<accountVars, codec, devices, snapshot_retention, notified, requesterVars>>
    /\ UNCHANGED <<now, snapshots, requests, calls, uploads, pushVars,
                   chromeTabs, debounce, syncStale, captures, events, failures,
                   logins, sinceEvent, burst>>

\* performSync up to the tab query: the session test, the key test, the
\* http(s) tabs, the empty test.
PerformSyncRead(p) ==
    /\ passes[p].pc = "read"
    /\ IF ~loggedIn
       THEN /\ isDirty' = FALSE
            /\ passes' = [passes EXCEPT ![p] = IdlePass]
            /\ prevPass' = [tabs |-> 0, uploaded |-> FALSE]
       ELSE IF ~masterKey[SyncDevice]
       THEN /\ passes' = [passes EXCEPT ![p] = IdlePass]
            /\ prevPass' = [tabs |-> 0, uploaded |-> FALSE]
            /\ UNCHANGED isDirty
       ELSE IF chromeTabs = 0
       THEN /\ isDirty' = FALSE
            /\ passes' = [passes EXCEPT ![p] = IdlePass]
            /\ prevPass' = [tabs |-> 0, uploaded |-> FALSE]
       ELSE /\ passes' = [passes EXCEPT ![p].pc = "hashed", ![p].tabs = chromeTabs]
            /\ UNCHANGED <<isDirty, prevPass>>
    /\ response' = NoResponse
    /\ UNCHANGED moreVars
    /\ UNCHANGED <<now, snapshots, requests, calls, uploads, pushVars,
                   chromeTabs, loggedIn, lastUploadedHash, debounce, syncStale,
                   captures, events, restarts, failures, logins,
                   sinceEvent, burst>>

\* performSync after hashString: the fingerprint test, then capturedAt
PerformSyncGate(p) ==
    /\ passes[p].pc = "hashed"
    /\ IF HashUnchanged(hashString(Serialize(passes[p].tabs)), lastUploadedHash)
       THEN /\ isDirty' = FALSE
            /\ passes' = [passes EXCEPT ![p] = IdlePass]
            /\ prevPass' = [tabs |-> passes[p].tabs, uploaded |-> FALSE]
            /\ UNCHANGED captures
       ELSE /\ captures' = captures + 1
            /\ passes' = [passes EXCEPT ![p].pc = "upload",
                                        ![p].capturedAt = captures + 1]
            /\ UNCHANGED <<isDirty, prevPass>>
    /\ response' = NoResponse
    /\ UNCHANGED moreVars
    /\ UNCHANGED <<now, snapshots, requests, calls, uploads, pushVars,
                   chromeTabs, loggedIn, lastUploadedHash, debounce, syncStale,
                   events, restarts, failures, logins,
                   sinceEvent, burst>>

\* A failed upload that is sent again at once (breaks C19)
OnUploadFailedRetry(p) ==
    /\ passes' = passes
    /\ prevPass' = prevPass
    /\ UNCHANGED <<isDirty, lastUploadedHash>>

\* if (!result.ok) ... return
OnUploadFailed(p) ==
    /\ passes' = [passes EXCEPT ![p] = IdlePass]
    /\ prevPass' = [tabs |-> passes[p].tabs, uploaded |-> FALSE]
    /\ UNCHANGED <<isDirty, lastUploadedHash>>

\* apiUploadSnapshot fails: the relay is not reached or refuses the session
PerformSyncUploadFailed(p) ==
    /\ passes[p].pc = "upload"
    /\ ~loggedIn \/ failures < MaxFailures
    /\ failures' = IF loggedIn THEN failures + 1 ELSE failures
    /\ response' = [route |-> "POST /snapshots", code |-> 401]
    /\ OnUploadFailed(p)
    /\ UNCHANGED moreVars
    /\ UNCHANGED <<now, snapshots, requests, calls, uploads, pushVars,
                   chromeTabs, loggedIn, debounce, syncStale,
                   captures, events, restarts, logins,
                   sinceEvent, burst>>

\* What an await of performSync throws: the message of the rejection
SyncExceptions == {"QUOTA_BYTES quota exceeded"}

\* catch (err): an await of the pass throws; saveToStorage({last_error})
PerformSyncThrows(p, errorMsg) ==
    /\ passes[p].pc \in {"read", "hashed", "upload"}
    /\ failures < MaxFailures
    /\ failures' = failures + 1
    /\ last_error' = storageSet(last_error, errorMsg)
    /\ passes' = [passes EXCEPT ![p] = IdlePass]
    /\ prevPass' = [tabs |-> passes[p].tabs, uploaded |-> FALSE]
    /\ response' = NoResponse
    /\ UNCHANGED <<accountVars, codec, devices, snapshot_retention, notified, channelVars, requesterVars>>
    /\ UNCHANGED <<now, snapshots, requests, calls, uploads, pushVars,
                   chromeTabs, loggedIn, isDirty, lastUploadedHash, debounce,
                   syncStale, captures, events, restarts, logins,
                   sinceEvent, burst>>

\* apiUploadSnapshot succeeds: the relay stores the snapshot, the engine
\* records the fingerprint and last_sync_at and saves last_error: undefined.
PerformSyncUpload(p) ==
    /\ passes[p].pc = "upload"
    /\ loggedIn
    /\ SyncServiceUploadSnapshot(DeviceOwner[SyncDevice], SyncDevice,
            passes[p].capturedAt, DeviceBlob[SyncDevice].iv,
            encryptSnapshot(passes[p].tabs, DeviceOwner[SyncDevice]))
    /\ lastUploadedHash' = hashString(Serialize(passes[p].tabs))
    /\ isDirty' = FALSE
    /\ syncStale' = FALSE
    /\ passes' = [passes EXCEPT ![p] = IdlePass]
    /\ prevPass' = [tabs |-> passes[p].tabs, uploaded |-> TRUE]
    /\ last_error' = storageSet(last_error, Undefined)
    /\ UNCHANGED <<accountVars, codec, devices, snapshot_retention, notified, channelVars, requesterVars>>
    /\ UNCHANGED <<now, calls, pushVars,
                   chromeTabs, loggedIn, debounce,
                   captures, events, restarts, failures, logins,
                   sinceEvent, burst>>

\* ------------------------------------- register, login and recovery

\* The popup registers: generates the key material, posts it, stores the
\* session and the key and sends START_SYNC
handleRegister(password, key, salt, iv, code, rsalt, riv) ==
    LET body == RegisterBody(password, key, salt, iv, code, rsalt, riv)
    IN  /\ users = NoUser
        /\ ~loggedIn
        /\ HasFreePass
        /\ users' = AuthServiceRegister(body)
        /\ received' = [passwords |-> received.passwords \cup {body.password},
                        envelopes |-> received.envelopes
                                        \cup {body.password_envelope,
                                              body.recovery_envelope},
                        hashes |-> received.hashes \cup {body.recovery_key_hash}]
        /\ dataKey' = key
        /\ storedKey' = key
        /\ loggedIn' = TRUE
        /\ masterKey' = [masterKey EXCEPT ![SyncDevice] = TRUE]
        /\ lastUploadedHash' = NULL
        /\ isDirty' = TRUE
        /\ passes' = performSync(passes, "login")
        /\ prevPass' = NoPass
        /\ response' = [route |-> "auth/register", code |-> 201]
        /\ UNCHANGED <<codec, devices, snapshot_retention, notified, extraVars>>
        /\ UNCHANGED <<now, snapshots, requests, calls, uploads,
                       stream, connects, initRes, pushQ, inbox, delivered, chanAt,
                       chromeTabs, debounce, syncStale, captures, events, restarts,
                       failures, logins, sinceEvent, burst>>

\* The popup logs in: POST /auth/login with the password, then the unwrap of
\* the envelope the relay returned; only then the session and the key are
\* stored and START_SYNC is sent
doLogin(password) ==
    /\ users # NoUser
    /\ ~loggedIn
    /\ logins < MaxLogins
    /\ HasFreePass
    /\ received' = [received EXCEPT !.passwords = @ \cup {password}]
    /\ LET crypto == users.password_envelope
           unwrapped == decryptMasterKey(crypto.encrypted, crypto.iv,
                                         deriveWrappingKey(password, crypto.salt))
       IN  IF ~verifyPassword(password, users.password_hash)
           THEN /\ response' = [route |-> "auth/login", code |-> 401]
                /\ UNCHANGED <<storedKey, engineVars, masterKey>>
                /\ UNCHANGED <<now, snapshots, requests, calls, uploads, stream,
                               connects, initRes, pushQ, inbox, delivered, chanAt>>
           ELSE IF unwrapped = AuthenticationError
           THEN /\ response' = [route |-> "auth/login", code |-> 200]
                /\ UNCHANGED <<storedKey, engineVars, masterKey>>
                /\ UNCHANGED <<now, snapshots, requests, calls, uploads, stream,
                               connects, initRes, pushQ, inbox, delivered, chanAt>>
           ELSE /\ OnStartSync
                /\ storedKey' = unwrapped
    /\ UNCHANGED <<users, dataKey, codec, devices, snapshot_retention, notified, extraVars>>

\* An UPDATE that leaves the recovery columns as they are (breaks C37)
updateSecurityParamsKeepRecovery(row, params) ==
    [row EXCEPT !.password_hash = params.password_hash,
                !.password_envelope = params.envelope]

\* PostgresUserRepository.updateSecurityParams: one UPDATE that replaces the
\* password hash and envelope and sets the four recovery columns to NULL
updateSecurityParams(row, params) ==
    [row EXCEPT !.password_hash = params.password_hash,
                !.password_envelope = params.envelope,
                !.has_recovery = FALSE,
                !.recovery_envelope = NoEnvelope,
                !.recovery_key_hash = hashPassword(NULL)]

\* POST /auth/recover: 404 without a user or a recovery_key_hash, 401 when
\* verifyPassword(recovery_code, recovery_key_hash) fails, else the update
AuthRecover(recovery_code, new_password, envelope) ==
    /\ received' = [passwords |-> received.passwords \cup {new_password},
                    envelopes |-> received.envelopes \cup {envelope},
                    hashes |-> received.hashes \cup {recovery_code}]
    /\ IF users = NoUser \/ ~users.has_recovery
       THEN /\ users' = users
            /\ response' = [route |-> "auth/recover", code |-> 404,
                            recovery_code |-> recovery_code]
       ELSE IF ~verifyPassword(recovery_code, users.recovery_key_hash)
       THEN /\ users' = users
            /\ response' = [route |-> "auth/recover", code |-> 401,
                            recovery_code |-> recovery_code]
       ELSE /\ users' = updateSecurityParams(users,
                            [password_hash |-> hashPassword(new_password),
                             envelope |-> envelope])
            /\ response' = [route |-> "auth/recover", code |-> 200,
                            recovery_code |-> recovery_code]

\* recover/page.tsx handleRecover with POST /auth/recover: the recovery
\* envelope is fetched and opened with the typed code, the key is wrapped
\* again under the new password, and the relay replaces the password envelope
\* and drops the recovery material.  Without recovery material, or with a
\* code that does not open the envelope, the page stops before the POST.
handleRecover(typed, newPassword, newSalt, newIv) ==
    /\ LET material == users.recovery_envelope
           normalized == normalizeRecoveryCode(typed)
           recoveryKey == deriveKey(normalized, material.salt, RECOVERY_ITERATIONS)
           key == unwrapMasterKey(material.encrypted, material.iv, recoveryKey)
           envelope == [encrypted |->
                            wrapMasterKey(key,
                                deriveKey(newPassword, newSalt, PBKDF2_ITERATIONS),
                                newIv).encryptedMasterKey,
                        iv |-> newIv, salt |-> newSalt]
           code_hash == pwaHashRecoveryCode(normalized)
       IN  IF users = NoUser \/ ~users.has_recovery
           THEN /\ response' = [route |-> "auth/recovery-material", code |-> 404]
                /\ UNCHANGED <<users, received>>
           ELSE IF key = AuthenticationError
           THEN /\ response' = [route |-> "auth/recovery-material", code |-> 200]
                /\ UNCHANGED <<users, received>>
           ELSE AuthRecover(code_hash, newPassword, envelope)
    /\ UNCHANGED <<dataKey, storedKey, codec, devices, snapshot_retention, notified, extraVars>>
    /\ UNCHANGED <<now, snapshots, requests, calls, uploads, pushVars, engineVars>>

\* POST /auth/recover from a client that has not opened the recovery
\* envelope: the hash of a code and an envelope that wraps no key
PostAuthRecover(typed, newPassword, newSalt, newIv) ==
    /\ AuthRecover(pwaHashRecoveryCode(normalizeRecoveryCode(typed)), newPassword,
                   [encrypted |->
                        wrapMasterKey(NULL,
                            deriveKey(newPassword, newSalt, PBKDF2_ITERATIONS),
                            newIv).encryptedMasterKey,
                    iv |-> newIv, salt |-> newSalt])
    /\ UNCHANGED <<dataKey, storedKey, codec, devices, snapshot_retention, notified, extraVars>>
    /\ UNCHANGED <<now, snapshots, requests, calls, uploads, pushVars, engineVars>>

\* The stored password envelope is corrupted or tampered with
TamperEnvelope ==
    /\ users # NoUser
    /\ users.password_envelope.encrypted.intact
    /\ users' = [users EXCEPT !.password_envelope.encrypted.intact = FALSE]
    /\ response' = NoResponse
    /\ UNCHANGED <<received, dataKey, storedKey, codec, devices, snapshot_retention, notified, extraVars>>
    /\ UNCHANGED <<now, snapshots, requests, calls, uploads, pushVars, engineVars>>

\* What the relay can compute from what it was sent: every key derivation
\* over a received password and a received salt, and every unwrap with it
RelayWrappingKeys ==
    {deriveKey(pw, e.salt, n) : pw \in received.passwords \cup received.hashes,
                                e \in received.envelopes,
                                n \in {PBKDF2_ITERATIONS, RECOVERY_ITERATIONS}}
        \cup {NoKey}

RelayKeys ==
    {decryptMasterKey(e.encrypted, e.iv, w) : e \in received.envelopes,
                                              w \in RelayWrappingKeys}
        \ {AuthenticationError}

\* --------------------------------------------- snapshots through the codec

\* performSync encrypts the tab list under the stored key
CodecEncrypt ==
    /\ codec.pc = "ready"
    /\ \E iv \in Ivs :
          codec' = [codec EXCEPT !.pc = "encrypted",
                        !.blob = encryptSnapshotWithIv(codec.tabs, codec.key, iv)]
    /\ UNCHANGED <<relayVars, pushVars, uploads, engineVars, accountVars, devices, snapshot_retention, notified, extraVars>>

\* The stored blob is corrupted
CodecCorrupt ==
    /\ codec.pc = "encrypted"
    /\ codec.blob.encryptedBlob.base64.intact
    /\ codec' = [codec EXCEPT !.blob.encryptedBlob.base64.intact = FALSE]
    /\ UNCHANGED <<relayVars, pushVars, uploads, engineVars, accountVars, devices, snapshot_retention, notified, extraVars>>

\* A client decrypts the blob with the key it holds
CodecDecrypt ==
    /\ codec.pc = "encrypted"
    /\ \E key \in MasterKeys :
          codec' = [codec EXCEPT !.pc = "decrypted", !.with = key,
                        !.out = decryptSnapshotWithIv(codec.blob.encryptedBlob,
                                                      codec.blob.iv, key)]
    /\ UNCHANGED <<relayVars, pushVars, uploads, engineVars, accountVars, devices, snapshot_retention, notified, extraVars>>

\* -------------------------------- DELETE /devices/:id -> deleteDevice

\* A row of restore_requests that DELETE has removed keeps its index
Deleted == "deleted"

\* DELETE FROM devices WHERE id = deviceId.  snapshots.device_id and
\* restore_requests.target_device_id are ON DELETE CASCADE,
\* restore_requests.snapshot_id is ON DELETE SET NULL, and
\* restore_requests.source_device_id references devices(id) with no action:
\* a row that still names the device as its source makes the statement fail.
SourceReferenced(deviceId) ==
    \E i \in ReqIds :
        /\ requests[i].status # Deleted
        /\ requests[i].source_device_id = deviceId
        /\ requests[i].target_device_id # deviceId

\* The statement when no such row is left: the cascade
DeviceRepositoryDelete(deviceId) ==
    /\ devices' = devices \ {deviceId}
    /\ snapshots' = {s \in snapshots : s.device_id # deviceId}
    /\ requests' =
        [i \in ReqIds |->
            IF requests[i].target_device_id = deviceId
            THEN [requests[i] EXCEPT !.status = Deleted]
            ELSE IF \E s \in snapshots :
                        s.device_id = deviceId /\ s.id = requests[i].snapshot_id
            THEN [requests[i] EXCEPT !.snapshot_id = NULL]
            ELSE requests[i]]

DeviceServiceDeleteDevice(userId, deviceId) ==
    /\ IF deviceId \notin devices \/ DeviceOwner[deviceId] # userId
       THEN /\ response' = [route |-> "devices/delete", code |-> 404,
                            user |-> userId, device |-> deviceId]
            /\ UNCHANGED <<devices, snapshots, requests>>
       ELSE IF SourceReferenced(deviceId)
       THEN /\ response' = [route |-> "devices/delete", code |-> 404,
                            user |-> userId, device |-> deviceId]
            /\ UNCHANGED <<devices, snapshots, requests>>
       ELSE /\ DeviceRepositoryDelete(deviceId)
            /\ response' = [route |-> "devices/delete", code |-> 200,
                            user |-> userId, device |-> deviceId]
    /\ UNCHANGED <<now, calls, pushVars, uploads, engineVars, accountVars, codec,
                   snapshot_retention, notified, extraVars>>

\* The callers of DELETE /devices/:id: <<caller, device>>
DeleteInputs == { <<"u1", "dA">>, <<"u1", "dB">>, <<"u2", "dA">>, <<"u2", "dC">> }

\* ---------------------------- PATCH /account/retention -> updateRetention

\* AccountService.updateRetention: the setting is stored, and when it is not 0
\* every device of the account is pruned to it
AccountServiceUpdateRetention(userId, retention) ==
    /\ snapshot_retention' = [snapshot_retention EXCEPT ![userId] = retention]
    /\ \E left \in {t \in SUBSET snapshots :
                      \A d \in Devices :
                         LET mine == {s \in snapshots : s.device_id = d}
                             kept == {s \in t : s.device_id = d}
                         IN  IF retention > 0 /\ d \in devices /\ DeviceOwner[d] = userId
                             THEN kept \in TopByCapturedAt(mine, retention)
                             ELSE kept = mine} :
          /\ snapshots' = left
          /\ requests' = SnapshotsDeleted(requests, left)
    /\ response' = [route |-> "PATCH /account/retention", code |-> 200]
    /\ UNCHANGED <<now, calls, pushVars, uploads, engineVars, accountVars, codec, devices,
                   notified, extraVars>>

\* ----------------------------------- events and the periodic alarm

\* The browser raises a tab or window event; the listener, if any, runs
BrowserEvent(event, changeInfo, t) ==
    /\ events < MaxEvents
    /\ events' = events + 1
    /\ notified' = [event |-> event, changeInfo |-> changeInfo,
                    parity |-> 1 - notified.parity]
    /\ chromeTabs' = IF ChangesTabs(event, changeInfo) THEN t ELSE chromeTabs
    /\ IF CallsMarkDirty(event, changeInfo)
       THEN /\ markDirty
            /\ sinceEvent' = 0
            /\ burst' = [events |-> IF sinceEvent < DEBOUNCE_SECONDS
                                     THEN burst.events + 1 ELSE 1,
                          syncs |-> 0]
       ELSE UNCHANGED <<isDirty, debounce, sinceEvent, burst>>
    /\ response' = NoResponse
    /\ UNCHANGED <<accountVars, codec, devices, snapshot_retention, extraVars>>
    /\ UNCHANGED <<now, snapshots, requests, calls, uploads, pushVars,
                   loggedIn, lastUploadedHash, syncStale, passes,
                   captures, restarts, failures, logins, prevPass>>

\* A fallback rule that looks at isDirty only (breaks C28)
FallbackDueWhenDirty == isDirty

\* if (isDirty || timeSinceSync > MAX_SYNC_AGE_MS), with last_sync_at absent
\* read as 0
FallbackDue == isDirty \/ syncStale

\* onAlarm, vaulttabs-fallback, every firing of it: performSync('fallback')
\* when due, then setupRestoreStream()
OnFallbackAlarm ==
    /\ FallbackDue => HasFreePass
    /\ notified' = [event |-> "alarms.fallback", changeInfo |-> "none",
                    parity |-> 1 - notified.parity]
    /\ passes' = IF FallbackDue THEN performSync(passes, "fallback") ELSE passes
    /\ IF loggedIn /\ stream[SyncDevice] = "closed"
          /\ connects[SyncDevice] < MaxConnects
       THEN /\ stream' = [stream EXCEPT ![SyncDevice] = "accepted"]
            /\ connects' = [connects EXCEPT ![SyncDevice] = @ + 1]
       ELSE UNCHANGED <<stream, connects>>
    /\ response' = NoResponse
    /\ UNCHANGED <<accountVars, codec, devices, snapshot_retention, extraVars>>
    /\ UNCHANGED <<now, snapshots, requests, calls, uploads,
                   initRes, pushQ, inbox, masterKey, delivered, chanAt,
                   chromeTabs, loggedIn, isDirty, lastUploadedHash, debounce,
                   syncStale, captures, events, restarts, failures, logins,
                   sinceEvent, burst, prevPass>>

\* ---------------------------- the worker's push-channel connections
\* setupRestoreStream() is called (startup, every fallback alarm, the
\* reconnect alarm, the reconnect timeout): `if (isStreamActive) return`,
\* then it waits for loadFromStorage
SetupRestoreStreamCall ==
    /\ setups < MaxSetups
    /\ setups' = IF isStreamActive THEN setups ELSE setups + 1
    /\ response' = NoResponse
    /\ UNCHANGED <<isStreamActive, openingStreams, openStreams, last_error>>
    /\ UNCHANGED <<accountVars, codec, devices, snapshot_retention, notified, requesterVars>>
    /\ UNCHANGED <<relayVars, pushVars, uploads, engineVars>>

\* setupRestoreStream after loadFromStorage: the session test, then
\* isStreamActive = true and apiConnectRestoreStream(...)
SetupRestoreStreamConnect ==
    /\ setups > 0
    /\ loggedIn => openingStreams + openStreams < MaxStreams
    /\ setups' = setups - 1
    /\ IF loggedIn
       THEN /\ isStreamActive' = TRUE
            /\ openingStreams' = openingStreams + 1
       ELSE UNCHANGED <<isStreamActive, openingStreams>>
    /\ response' = NoResponse
    /\ UNCHANGED <<openStreams, last_error>>
    /\ UNCHANGED <<accountVars, codec, devices, snapshot_retention, notified, requesterVars>>
    /\ UNCHANGED <<relayVars, pushVars, uploads, engineVars>>

\* apiConnectRestoreStream: fetch answers 200 with a body; the reader loop
ConnectOpens ==
    /\ openingStreams > 0
    /\ openingStreams' = openingStreams - 1
    /\ openStreams' = openStreams + 1
    /\ response' = NoResponse
    /\ UNCHANGED <<isStreamActive, setups, last_error>>
    /\ UNCHANGED <<accountVars, codec, devices, snapshot_retention, notified, requesterVars>>
    /\ UNCHANGED <<relayVars, pushVars, uploads, engineVars>>

\* onDisconnect(error): isStreamActive = false, then the timeout and the
\* reconnect alarm that call setupRestoreStream later
onDisconnect == isStreamActive' = FALSE

\* apiConnectRestoreStream: no token, fetch throws or the response is not ok
ConnectFails ==
    /\ openingStreams > 0
    /\ openingStreams' = openingStreams - 1
    /\ onDisconnect
    /\ response' = NoResponse
    /\ UNCHANGED <<setups, openStreams, last_error>>
    /\ UNCHANGED <<accountVars, codec, devices, snapshot_retention, notified, requesterVars>>
    /\ UNCHANGED <<relayVars, pushVars, uploads, engineVars>>

\* apiConnectRestoreStream: reader.read() is done or throws
ConnectionEnds ==
    /\ openStreams > 0
    /\ openStreams' = openStreams - 1
    /\ onDisconnect
    /\ response' = NoResponse
    /\ UNCHANGED <<setups, openingStreams, last_error>>
    /\ UNCHANGED <<accountVars, codec, devices, snapshot_retention, notified, requesterVars>>
    /\ UNCHANGED <<relayVars, pushVars, uploads, engineVars>>

\* ------------------------------------ the dashboard's restore requests
\* The dashboard of one logged-in user on a page that stays mounted.  A timer
\* is named by the request it was set for; time moves in steps of the
\* shortest timeout, with the polls of the two-second interval in between.
\* }, 90_000);
TIMEOUT_SECONDS == 90
\* setTimeout(() => setRestore({ phase: 'idle' }), 6000)
RESET_SECONDS == 6

\* The requests the dashboard sends: a snapshot onto dA, or dA's latest one
RestoreInputs == { <<"u1", "dA", "sB">>, <<"u1", "dA", NULL>> }

\* clearInterval(id): a cleared or unknown id is ignored
clearInterval(live, id) == live \ {id}

pageFrame ==
    UNCHANGED <<pushVars, uploads, engineVars, accountVars, codec, devices,
                snapshot_retention, notified, last_error, channelVars>>

\* apiCreateRestoreRequest has answered and handleRestoreToDevice has not resumed
Answering == restore.phase = "sending" /\ response.route = "POST /restore"

\* handleRestoreToDevice up to its await.  The overlay shown in every phase
\* but idle covers the restore buttons.
handleRestoreToDevice ==
    /\ restore.phase = "idle"
    /\ restore' = [phase |-> "sending", requestId |-> NoReq]
    /\ response' = NoResponse
    /\ UNCHANGED <<now, snapshots, requests, calls>>
    /\ UNCHANGED <<pollRef, intervals, polls, timers>>
    /\ pageFrame

\* handleRestoreToDevice after its await: the error phase, or the waiting
\* phase with a new interval in pollRef and a new 90-second timeout
RestoreRequestAnswered ==
    /\ Answering
    /\ IF response.code = 201
       THEN /\ restore' = [phase |-> "waiting", requestId |-> response.request_id]
            /\ pollRef' = response.request_id
            /\ intervals' = intervals \cup {response.request_id}
            /\ timers' = timers \cup {[kind |-> "timeout",
                                       requestId |-> response.request_id,
                                       left |-> TIMEOUT_SECONDS]}
       ELSE /\ restore' = [phase |-> "error", requestId |-> NoReq]
            /\ UNCHANGED <<pollRef, intervals, timers>>
    /\ UNCHANGED polls
    /\ UNCHANGED relayVars
    /\ pageFrame

\* The interval callback up to its await: GET /restore/:id is sent
IntervalFires(r) ==
    /\ r \in intervals
    /\ polls' = polls \cup {r}
    /\ UNCHANGED <<restore, pollRef, intervals, timers>>
    /\ UNCHANGED relayVars
    /\ pageFrame

\* The interval callback after its await, on the row getRequestStatus returned
PollAnswer(r) ==
    /\ r \in polls
    /\ polls' = polls \ {r}
    /\ LET req == requests[r]
       IN  CASE req.status = "completed" ->
                    /\ intervals' = clearInterval(intervals, pollRef)
                    /\ restore' = [phase |-> "success", requestId |-> NoReq]
                    /\ timers' = timers \cup {[kind |-> "reset", requestId |-> r,
                                               left |-> RESET_SECONDS]}
             [] req.status \in {"failed", "expired"} ->
                    /\ intervals' = clearInterval(intervals, pollRef)
                    /\ restore' = [phase |-> "error", requestId |-> NoReq]
                    /\ UNCHANGED timers
             [] OTHER -> UNCHANGED <<restore, intervals, timers>>
    /\ UNCHANGED pollRef
    /\ UNCHANGED relayVars
    /\ pageFrame

\* The 90-second timeout set for request r runs
RestoreTimeout(r) ==
    /\ \E t \in timers :
        /\ t.kind = "timeout" /\ t.requestId = r /\ t.left = 0
        /\ timers' = timers \ {t}
    /\ IF pollRef # NoReq
       THEN /\ intervals' = clearInterval(intervals, pollRef)
            /\ restore' = IF restore.phase = "waiting"
                          THEN [phase |-> "error", requestId |-> NoReq]
                          ELSE restore
       ELSE UNCHANGED <<restore, intervals>>
    /\ UNCHANGED <<pollRef, polls>>
    /\ UNCHANGED relayVars
    /\ pageFrame

\* The auto-reset set six seconds after request r's success runs
RestoreReset(r) ==
    /\ \E t \in timers :
        /\ t.kind = "reset" /\ t.requestId = r /\ t.left = 0
        /\ timers' = timers \ {t}
    /\ restore' = IdleRestore
    /\ UNCHANGED <<pollRef, intervals, polls>>
    /\ UNCHANGED relayVars
    /\ pageFrame

\* The Cancel button of the waiting phase, the Dismiss button of the error phase
cancelRestore ==
    /\ restore.phase \in {"waiting", "error"}
    /\ intervals' = IF pollRef # NoReq THEN clearInterval(intervals, pollRef)
                    ELSE intervals
    /\ restore' = IdleRestore
    /\ UNCHANGED <<pollRef, polls, timers>>
    /\ UNCHANGED relayVars
    /\ pageFrame

\* Six seconds pass on the page; a callback that is due runs first
PageTick ==
    /\ timers # {}
    /\ \A t \in timers : t.left > 0
    /\ timers' = {[t EXCEPT !.left = IF @ > RESET_SECONDS THEN @ - RESET_SECONDS ELSE 0] :
                    t \in timers}
    /\ UNCHANGED <<restore, pollRef, intervals, polls>>
    /\ UNCHANGED relayVars
    /\ pageFrame

\* ------------------------------------------------------ specifications
\* The relay's routes under clients that send any request at any time.
Next ==
    \/ Tick
    \/ \E c \in CallIds, in \in CreateInputs : CreateResolve(c, in)
    \/ \E c \in CallIds : CreateExpire(c)
    \/ \E c \in CallIds : CreateInsert(c)
    \/ \E c \in CallIds : CreateEmit(c)
    \/ \E u \in Users, id \in ReqIds, out \in Outcomes : PatchRestore(u, id, out)
    \/ \E in \in PollInputs : GetRestorePending(in[1], in[2])
    \/ RunCleanup

Spec == Init /\ [][Next]_vars

\* The relay with the extension as the target's only client: requesters
\* create requests, the extension holds the push channel and completes what
\* it receives.
NextPush ==
    \/ Tick
    \/ \E c \in CallIds, in \in CreateInputs : CreateResolve(c, in)
    \/ \E c \in CallIds : CreateExpire(c)
    \/ \E c \in CallIds : CreateInsert(c)
    \/ \E c \in CallIds : CreateEmit(c)
    \/ RunCleanup
    \/ \E d \in ExtDevices : SetupRestoreStream(d)
    \/ \E d \in ExtDevices : StreamInitialCheck(d)
    \/ \E d \in ExtDevices : StreamListen(d)
    \/ \E d \in ExtDevices, r \in ReqIds : OnRestoreRequest(d, r)
    \/ \E d \in ExtDevices : StreamClose(d)
    \/ \E d \in ExtDevices, r \in ReqIds, opened \in BOOLEAN :
            HandleIncomingRestore(d, Payload(r), opened)
    \/ \E d \in ExtDevices : EvictMasterKey(d)

SpecPush == Init /\ [][NextPush]_vars

\* The relay's routes under a serial client: every handler runs to its end
\* before the next request is sent, and takes no time (the client of the
\* multi-device test).
Busy == \E c \in CallIds : calls[c].pc \in {"expire", "insert", "emit"}

NextSeq ==
    \/ /\ ~Busy
       /\ \/ Tick
          \/ \E c \in CallIds, in \in CreateInputs : CreateResolve(c, in)
          \/ \E u \in Users, id \in ReqIds, out \in Outcomes : PatchRestore(u, id, out)
          \/ \E in \in PollInputs : GetRestorePending(in[1], in[2])
          \/ RunCleanup
    \/ \E c \in CallIds : CreateExpire(c)
    \/ \E c \in CallIds : CreateInsert(c)
    \/ \E c \in CallIds : CreateEmit(c)

SpecSeq == Init /\ [][NextSeq]_vars

\* The relay from an empty snapshots table, under a serial client that
\* uploads snapshots, fetches the latest ones and creates restore requests.
InitSnap ==
    /\ now = 0
    /\ snapshots = {}
    /\ requests = <<>>
    /\ calls = [c \in CallIds |-> IdleCall]
    /\ response = NoResponse
    /\ uploads = 0
    /\ EngineStarted(1)
    /\ stream = [d \in ExtDevices |-> "closed"]
    /\ connects = [d \in ExtDevices |-> 0]
    /\ initRes = [d \in ExtDevices |-> NoRow]
    /\ pushQ = [d \in ExtDevices |-> {}]
    /\ inbox = [d \in ExtDevices |-> EmptyBag]
    /\ masterKey = [d \in ExtDevices |-> TRUE]
    /\ delivered = [d \in ExtDevices |-> {}]
    /\ chanAt = <<>>
    /\ AccountRegistered
    /\ codec = NoCodec
    /\ devices = Devices
    /\ snapshot_retention = InitialRetention
    /\ notified = NoEvent
    /\ last_error = NULL
    /\ NoChannel
    /\ NoRestore

NextSnap ==
    \/ /\ ~Busy
       /\ \/ \E in \in UploadInputs : UploadSnapshot(in[1], in[2], in[3])
          \/ \E u \in Users : GetLatestSnapshots(u)
          \/ \E c \in CallIds, in \in SnapCreateInputs : CreateResolve(c, in)
    \/ \E c \in CallIds : CreateExpire(c)
    \/ \E c \in CallIds : CreateInsert(c)
    \/ \E c \in CallIds : CreateEmit(c)

SpecSnap == InitSnap /\ [][NextSnap]_vars

\* The sync engine of a device that stays logged in, against a relay that
\* starts without snapshots: tab events, the fallback alarm, worker restarts
\* and the sync passes, interleaved at their awaits.
InitEngine ==
    /\ now = 0
    /\ snapshots = {}
    /\ requests = <<>>
    /\ calls = [c \in CallIds |-> IdleCall]
    /\ response = NoResponse
    /\ uploads = 0
    /\ \E t \in TabStates : EngineStarted(t)
    /\ stream = [d \in ExtDevices |-> "closed"]
    /\ connects = [d \in ExtDevices |-> 0]
    /\ initRes = [d \in ExtDevices |-> NoRow]
    /\ pushQ = [d \in ExtDevices |-> {}]
    /\ inbox = [d \in ExtDevices |-> EmptyBag]
    /\ masterKey = [d \in ExtDevices |-> TRUE]
    /\ delivered = [d \in ExtDevices |-> {}]
    /\ chanAt = <<>>
    /\ AccountRegistered
    /\ codec = NoCodec
    /\ devices = Devices
    /\ snapshot_retention = InitialRetention
    /\ notified = NoEvent
    /\ last_error = NULL
    /\ NoChannel
    /\ NoRestore

NextEngine ==
    \/ \E t \in TabStates : TabEvent(t)
    \/ FallbackAlarm
    \/ Restart
    \/ \E p \in PassIds : PerformSyncRead(p)
    \/ \E p \in PassIds : PerformSyncGate(p)
    \/ \E p \in PassIds : PerformSyncUploadFailed(p)
    \/ \E p \in PassIds : PerformSyncUpload(p)

SpecEngine == InitEngine /\ [][NextEngine]_vars

\* The engine of a device that stays logged in, under the clock: tab events,
\* seconds, the debounce alarm and the sync passes it starts.
NextDebounce ==
    \/ \E t \in TabStates : TabEvent(t)
    \/ Second
    \/ AgeOut
    \/ DebounceAlarm
    \/ StopSync
    \/ \E p \in PassIds : PerformSyncRead(p)
    \/ \E p \in PassIds : PerformSyncGate(p)
    \/ \E p \in PassIds : PerformSyncUpload(p)

SpecDebounce == InitEngine /\ [][NextDebounce]_vars

\* The engine under logout and login: tab events, the fallback alarm, the
\* popup's STOP_SYNC and START_SYNC and the sync passes.
NextLogin ==
    \/ \E t \in TabStates : TabEvent(t)
    \/ FallbackAlarm
    \/ StopSync
    \/ StartSync
    \/ \E p \in PassIds : PerformSyncRead(p)
    \/ \E p \in PassIds : PerformSyncGate(p)
    \/ \E p \in PassIds : PerformSyncUploadFailed(p)
    \/ \E p \in PassIds : PerformSyncUpload(p)

SpecLogin == InitEngine /\ [][NextLogin]_vars

\* The engine of SpecEngine over a long time: the last sync grows older
\* than the fallback interval, the fallback alarm keeps firing, every pass
\* goes on after each await and an upload that can succeed does.
NextFair ==
    \/ NextEngine
    \/ AgeOut

SpecEngineFair ==
    /\ InitEngine /\ [][NextFair]_vars
    /\ WF_vars(AgeOut)
    /\ WF_vars(FallbackAlarm)
    /\ \A p \in PassIds : WF_vars(PerformSyncRead(p))
    /\ \A p \in PassIds : WF_vars(PerformSyncGate(p))
    /\ \A p \in PassIds : WF_vars(PerformSyncUpload(p))

\* The account from its registration on: the popup's register, login and
\* logout and the PWA's recovery.
InitKeys ==
    /\ now = 0
    /\ snapshots = {}
    /\ requests = <<>>
    /\ calls = [c \in CallIds |-> IdleCall]
    /\ response = NoResponse
    /\ uploads = 0
    /\ EngineLoggedOut
    /\ stream = [d \in ExtDevices |-> "closed"]
    /\ connects = [d \in ExtDevices |-> 0]
    /\ initRes = [d \in ExtDevices |-> NoRow]
    /\ pushQ = [d \in ExtDevices |-> {}]
    /\ inbox = [d \in ExtDevices |-> EmptyBag]
    /\ masterKey = [d \in ExtDevices |-> FALSE]
    /\ delivered = [d \in ExtDevices |-> {}]
    /\ chanAt = <<>>
    /\ users = NoUser
    /\ received = NothingReceived
    /\ dataKey = NULL
    /\ storedKey = NULL
    /\ codec = NoCodec
    /\ devices = Devices
    /\ snapshot_retention = InitialRetention
    /\ notified = NoEvent
    /\ last_error = NULL
    /\ NoChannel
    /\ NoRestore

NextKeys ==
    \/ \E password \in Passwords, key \in MasterKeys, salt, rsalt \in Salts,
          iv, riv \in Ivs, code \in RecoveryCodes :
            handleRegister(password, key, salt, iv, code, rsalt, riv)
    \/ \E password \in Passwords : doLogin(password)
    \/ \E typed \in TypedCodes, newPassword \in Passwords, newSalt \in Salts,
          newIv \in Ivs : handleRecover(typed, newPassword, newSalt, newIv)
    \/ StopSync

SpecKeys == InitKeys /\ [][NextKeys]_vars

\* The same with a password envelope that can be corrupted in the store.
NextTamper ==
    \/ NextKeys
    \/ TamperEnvelope

SpecTamper == InitKeys /\ [][NextTamper]_vars

\* encryptSnapshot and decryptSnapshot over every tab list up to MaxTabs tabs.
InitCodec ==
    /\ now = 0
    /\ snapshots = {}
    /\ requests = <<>>
    /\ calls = [c \in CallIds |-> IdleCall]
    /\ response = NoResponse
    /\ uploads = 0
    /\ EngineStarted(1)
    /\ stream = [d \in ExtDevices |-> "closed"]
    /\ connects = [d \in ExtDevices |-> 0]
    /\ initRes = [d \in ExtDevices |-> NoRow]
    /\ pushQ = [d \in ExtDevices |-> {}]
    /\ inbox = [d \in ExtDevices |-> EmptyBag]
    /\ masterKey = [d \in ExtDevices |-> TRUE]
    /\ delivered = [d \in ExtDevices |-> {}]
    /\ chanAt = <<>>
    /\ AccountRegistered
    /\ \E list \in TabLists(MaxTabs), key \in MasterKeys :
          codec = [NoCodec EXCEPT !.pc = "ready", !.tabs = list, !.key = key]
    /\ devices = Devices
    /\ snapshot_retention = InitialRetention
    /\ notified = NoEvent
    /\ last_error = NULL
    /\ NoChannel
    /\ NoRestore

NextCodec ==
    \/ CodecEncrypt
    \/ CodecCorrupt
    \/ CodecDecrypt

SpecCodec == InitCodec /\ [][NextCodec]_vars

\* Restore requests, one call at a time, with devices being deleted.  A
\* request for a target that has been deleted is not sent.
NextDevices ==
    \/ /\ ~Busy
       /\ \/ Tick
          \/ \E c \in CallIds, in \in CreateInputs :
                in[2] \in devices /\ CreateResolve(c, in)
          \/ \E u \in Users, id \in ReqIds, out \in Outcomes :
                requests[id].status # Deleted /\ PatchRestore(u, id, out)
          \/ \E in \in DeleteInputs : DeviceServiceDeleteDevice(in[1], in[2])
    \/ \E c \in CallIds : CreateExpire(c)
    \/ \E c \in CallIds : CreateInsert(c)
    \/ \E c \in CallIds : CreateEmit(c)

SpecDevices == Init /\ [][NextDevices]_vars

\* Uploads, retention updates and cleanup runs over a relay that starts
\* without snapshots, under every retention setting.
InitRetention ==
    /\ now = 0
    /\ snapshots = {}
    /\ requests = <<>>
    /\ calls = [c \in CallIds |-> IdleCall]
    /\ response = NoResponse
    /\ uploads = 0
    /\ EngineStarted(1)
    /\ stream = [d \in ExtDevices |-> "closed"]
    /\ connects = [d \in ExtDevices |-> 0]
    /\ initRes = [d \in ExtDevices |-> NoRow]
    /\ pushQ = [d \in ExtDevices |-> {}]
    /\ inbox = [d \in ExtDevices |-> EmptyBag]
    /\ masterKey = [d \in ExtDevices |-> TRUE]
    /\ delivered = [d \in ExtDevices |-> {}]
    /\ chanAt = <<>>
    /\ AccountRegistered
    /\ codec = NoCodec
    /\ devices = Devices
    /\ snapshot_retention \in [Users -> RetentionSettings]
    /\ notified = NoEvent
    /\ last_error = NULL
    /\ NoChannel
    /\ NoRestore

NextRetention ==
    \/ \E in \in UploadInputs : UploadSnapshot(in[1], in[2], in[3])
    \/ \E u \in Users, r \in RetentionSettings : AccountServiceUpdateRetention(u, r)
    \/ RunCleanup

SpecRetention == InitRetention /\ [][NextRetention]_vars

\* The worker under every event the browser raises, with the debounce alarm.
NextNotify ==
    \/ \E in \in EventInputs, t \in TabStates : BrowserEvent(in[1], in[2], t)
    \/ Second
    \/ DebounceAlarm
    \/ \E p \in PassIds : PerformSyncRead(p)
    \/ \E p \in PassIds : PerformSyncGate(p)
    \/ \E p \in PassIds : PerformSyncUpload(p)

SpecNotify == InitEngine /\ [][NextNotify]_vars

\* The worker under the periodic alarm, with tab events and restarts of the
\* worker; no sync is on record until the first upload succeeds.
NextFallback ==
    \/ \E t \in TabStates : TabEvent(t)
    \/ OnFallbackAlarm
    \/ Restart
    \/ \E p \in PassIds : PerformSyncRead(p)
    \/ \E p \in PassIds : PerformSyncGate(p)
    \/ \E p \in PassIds : PerformSyncUpload(p)

SpecFallback == InitEngine /\ [][NextFallback]_vars

\* The push channel of a device that logs out at some time, with restore
\* requests for it created one at a time and none expiring.  The worker's
\* timers fire and the relay's stream handler runs to its end.
ReconnectInputs == { <<"u1", "dA", "sB">>, <<"u1", "dA", NULL>> }

NextReconnect ==
    \/ /\ ~Busy
       /\ \E c \in CallIds, in \in ReconnectInputs : CreateResolve(c, in)
    \/ \E c \in CallIds : CreateExpire(c)
    \/ \E c \in CallIds : CreateInsert(c)
    \/ \E c \in CallIds : CreateEmit(c)
    \/ \E d \in ExtDevices : SetupRestoreStream(d)
    \/ \E d \in ExtDevices : StreamOpenFails(d)
    \/ \E d \in ExtDevices : StreamInitialCheck(d)
    \/ \E d \in ExtDevices : StreamListen(d)
    \/ \E d \in ExtDevices, r \in ReqIds : OnRestoreRequest(d, r)
    \/ \E d \in ExtDevices : StreamClose(d)
    \/ StopSync

SpecReconnect ==
    /\ Init
    /\ [][NextReconnect]_vars
    /\ \A d \in ExtDevices :
          /\ WF_vars(SetupRestoreStream(d) \/ StreamOpenFails(d))
          /\ WF_vars(StreamInitialCheck(d))
          /\ WF_vars(StreamListen(d))

\* The restore path when the target cannot restore: u1 asks for snapshots
\* of dB on dA, among them a ciphertext that does not authenticate and an
\* empty tab list; dA's key store may be dropped; the requester polls
\* GET /restore/:id.  Requests are created one at a time and none expires.
FailureSnapshots ==
    InitSnapshots \cup
    { [id |-> "sD", user_id |-> "u1", device_id |-> "dB", captured_at |-> 0,
       iv |-> "iv_d", encrypted_blob |-> "blob_d"],
      [id |-> "sE", user_id |-> "u1", device_id |-> "dB", captured_at |-> 0,
       iv |-> "iv_e", encrypted_blob |-> "blob_e"] }

FailureInputs == { <<"u1", "dA", "sB">>, <<"u1", "dA", "sD">>, <<"u1", "dA", "sE">> }

InitFailure ==
    /\ now = 0
    /\ snapshots = FailureSnapshots
    /\ requests = <<>>
    /\ calls = [c \in CallIds |-> IdleCall]
    /\ response = NoResponse
    /\ uploads = 0
    /\ EngineStarted(1)
    /\ stream = [d \in ExtDevices |-> "closed"]
    /\ connects = [d \in ExtDevices |-> 0]
    /\ initRes = [d \in ExtDevices |-> NoRow]
    /\ pushQ = [d \in ExtDevices |-> {}]
    /\ inbox = [d \in ExtDevices |-> EmptyBag]
    /\ masterKey = [d \in ExtDevices |-> TRUE]
    /\ delivered = [d \in ExtDevices |-> {}]
    /\ chanAt = <<>>
    /\ AccountRegistered
    /\ codec = NoCodec
    /\ devices = Devices
    /\ snapshot_retention = InitialRetention
    /\ notified = NoEvent
    /\ last_error = NULL
    /\ NoChannel
    /\ NoRestore

NextFailure ==
    \/ /\ ~Busy
       /\ \/ \E c \in CallIds, in \in FailureInputs : CreateResolve(c, in)
          \/ \E id \in CallIds : GetRestoreStatus("u1", id)
    \/ \E c \in CallIds : CreateExpire(c)
    \/ \E c \in CallIds : CreateInsert(c)
    \/ \E c \in CallIds : CreateEmit(c)
    \/ \E d \in ExtDevices : SetupRestoreStream(d)
    \/ \E d \in ExtDevices : StreamInitialCheck(d)
    \/ \E d \in ExtDevices : StreamListen(d)
    \/ \E d \in ExtDevices, r \in ReqIds : OnRestoreRequest(d, r)
    \/ \E d \in ExtDevices, r \in ReqIds, opened \in BOOLEAN :
            HandleIncomingRestore(d, Payload(r), opened)
    \/ \E d \in ExtDevices : EvictMasterKey(d)

SpecFailure == InitFailure /\ [][NextFailure]_vars

\* The engine of a device that stays logged in, with uploads that the relay
\* rejects or that do not reach it, and awaits of the pass that throw.
NextLastError ==
    \/ \E t \in TabStates : TabEvent(t)
    \/ Second
    \/ DebounceAlarm
    \/ FallbackAlarm
    \/ \E p \in PassIds : PerformSyncRead(p)
    \/ \E p \in PassIds : PerformSyncGate(p)
    \/ \E p \in PassIds : PerformSyncUploadFailed(p)
    \/ \E p \in PassIds : PerformSyncUpload(p)
    \/ \E p \in PassIds, errorMsg \in SyncExceptions : PerformSyncThrows(p, errorMsg)

SpecLastError == InitEngine /\ [][NextLastError]_vars

\* The worker of a device under logout and login: the calls of
\* setupRestoreStream, its connections opening, failing and ending, the
\* popup's STOP_SYNC and START_SYNC and the sync passes they start.
NextStreams ==
    \/ SetupRestoreStreamCall
    \/ SetupRestoreStreamConnect
    \/ ConnectOpens
    \/ ConnectFails
    \/ ConnectionEnds
    \/ StopSync
    \/ StartSync
    \/ \E p \in PassIds : PerformSyncRead(p)
    \/ \E p \in PassIds : PerformSyncGate(p)
    \/ \E p \in PassIds : PerformSyncUploadFailed(p)
    \/ \E p \in PassIds : PerformSyncUpload(p)

SpecStreams == InitEngine /\ [][NextStreams]_vars

\* The restore routes under two accounts that both name dA as target, one
\* request at a time and none expiring: create, complete, status, pending.
OwnerInputs == { <<"u1", "dA", "sB">>, <<"u2", "dA", "sC">> }

NextOwners ==
    \/ /\ ~Busy
       /\ \/ \E c \in CallIds, in \in OwnerInputs : CreateResolve(c, in)
          \/ \E u \in Users, id \in ReqIds, out \in Outcomes : PatchRestore(u, id, out)
          \/ \E u \in Users, id \in CallIds : GetRestoreStatus(u, id)
          \/ \E in \in PollInputs : GetRestorePending(in[1], in[2])
    \/ \E c \in CallIds : CreateExpire(c)
    \/ \E c \in CallIds : CreateInsert(c)
    \/ \E c \in CallIds : CreateEmit(c)

SpecOwners == Init /\ [][NextOwners]_vars

\* The account's recovery: registration, the recovery page, and clients that
\* post to /auth/recover with any code, in any order and any number of
\* times, each call answered before the next is sent.
NextRecover ==
    \/ \E key \in MasterKeys, code \in RecoveryCodes :
            handleRegister("pw1", key, "salt1", "iv1", code, "salt2", "iv2")
    \/ \E typed \in TypedCodes, newPassword \in Passwords :
            handleRecover(typed, newPassword, "salt2", "iv2")
    \/ \E typed \in TypedCodes, newPassword \in Passwords :
            PostAuthRecover(typed, newPassword, "salt2", "iv2")

SpecRecover == InitKeys /\ [][NextRecover]_vars

\* The dashboard sends restore requests to the relay one at a time, polls
\* them, cancels and dismisses; the target's extension completes or fails
\* them.  Polls fire at any moment, at least as often as the interval does.
NextRequester ==
    \/ handleRestoreToDevice
    \/ /\ restore.phase = "sending" /\ response = NoResponse /\ ~Busy
       /\ \E c \in CallIds, in \in RestoreInputs : CreateResolve(c, in)
    \/ \E c \in CallIds : CreateExpire(c)
    \/ \E c \in CallIds : CreateInsert(c)
    \/ \E c \in CallIds : CreateEmit(c)
    \/ RestoreRequestAnswered
    \/ /\ ~Answering /\ ~Busy
       /\ \E id \in ReqIds, out \in Outcomes : PatchRestore("u1", id, out)
    \/ \E r \in ReqIds : IntervalFires(r)
    \/ \E r \in ReqIds : PollAnswer(r)
    \/ \E r \in ReqIds : RestoreTimeout(r)
    \/ \E r \in ReqIds : RestoreReset(r)
    \/ cancelRestore
    \/ PageTick

SpecRequester == Init /\ [][NextRequester]_vars

\* ================================================================ claims

\* The pending rows of one (owner, target device)
PendingOf(u, d) ==
    {i \in ReqIds : /\ requests[i].user_id = u
                    /\ requests[i].target_device_id = d
                    /\ requests[i].status = "pending"}

\* C1: in every reachable state at most one restore request with status
\* pending exists per (owner, target device), also while createRequest calls
\* for the same target interleave.
C1_SinglePending ==
    \A u \in Users, d \in Devices : Cardinality(PendingOf(u, d)) <= 1

\* C2: once a request's status is completed, failed or expired, no step
\* changes it again.
C2_TerminalFinal ==
    [][\A i \in ReqIds :
          requests[i].status \in Terminal => requests'[i].status = requests[i].status]_vars

\* The step is the PATCH /restore/:id of request i
IsPatchOf(i) ==
    /\ response'.route = "PATCH /restore/:id"
    /\ response'.request_id = i

\* C3: a complete call on a request that an earlier complete call already
\* resolved leaves status and error message as they are and is answered
\* 'not found / already resolved' (404), not success.
C3_SecondCompleteNoOp ==
    [][\A i \in ReqIds :
          (IsPatchOf(i) /\ requests[i].status \in {"completed", "failed"})
          => /\ requests'[i].status = requests[i].status
             /\ requests'[i].error_msg = requests[i].error_msg
             /\ response'.code = 404]_vars

\* C4: when createRequest is called for (owner, target) while a pending
\* request R1 of the same (owner, target) exists, then at the return of the
\* call R1 is expired and the new request R2 is pending.
C4_Supersession ==
    [][\A c \in CallIds :
          (calls[c].pc = "emit" /\ calls'[c].pc = "done")
          => /\ \A r1 \in calls[c].superseded : requests'[r1].status = "expired"
             /\ requests'[calls[c].req].status = "pending"]_vars

\* C4 witness: a createRequest call has just returned R2, and an R1 of the
\* same owner and target, still inside its own expiry window, is expired.
C4_Witness ==
    /\ response.route = "POST /restore"
    /\ response.code = 201
    /\ \E r1 \in ReqIds :
          /\ r1 # response.request_id
          /\ requests[r1].user_id = requests[response.request_id].user_id
          /\ requests[r1].target_device_id = requests[response.request_id].target_device_id
          /\ requests[r1].status = "expired"
          /\ requests[r1].expires_at > now
          /\ requests[response.request_id].status = "pending"

\* C5: the pending lookup (the poll route's reply, and the statement the
\* stream's initial check and push listener share with it) never yields a
\* request whose expires_at is not later than the current time.
C5_ExpiryPrecedence ==
    /\ (response.route = "GET /restore/pending" /\ response.pending)
          => requests[response.request.id].expires_at > now
    /\ \A d \in ExtDevices :
          \A i \in findPendingByTargetDeviceWithSnapshot(DeviceOwner[d], d) :
              requests[i].expires_at > now

\* C5 witness: the poll has just answered pending = false although a row of
\* that caller and device still has status pending: its expires_at has
\* passed and the sweep has not written 'expired'.
C5_Witness ==
    /\ response.route = "GET /restore/pending"
    /\ ~response.pending
    /\ \E i \in PendingOf(response.user, response.device_id) :
          requests[i].expires_at <= now

\* C6: a complete call by a user who does not own the request leaves the
\* request's status and error message unchanged and does not report success.
C6_CompleteOwnerOnly ==
    [][\A i \in ReqIds :
          (IsPatchOf(i) /\ response'.user # requests[i].user_id)
          => /\ requests'[i].status = requests[i].status
             /\ requests'[i].error_msg = requests[i].error_msg
             /\ response'.code # 200]_vars

\* Request r is a live request of device d's own account: pending, not yet
\* at its expires_at, addressed to d by the user who holds d's channel
LiveFor(d, r) ==
    /\ requests[r].target_device_id = d
    /\ requests[r].user_id = DeviceOwner[d]
    /\ requests[r].status = "pending"
    /\ requests[r].expires_at > now

\* C7: a request whose createRequest returned while the target's channel was
\* disconnected, and that is still pending and before its expires_at when
\* the target has reconnected and the stream has done its catch-up, has been
\* written to the target.
C7_ReconnectCatchUp ==
    \A d \in ExtDevices, r \in DOMAIN chanAt :
        (stream[d] = "listening" /\ chanAt[r] = 0 /\ LiveFor(d, r))
        => r \in delivered[d]

\* C8: a request whose createRequest returned while the target's present
\* channel was open (accepted, checking or listening) has been written to
\* that channel once the stream's handlers have run, as long as it is the
\* target's one pending request and still live.
C8_PushOnCreate ==
    \A d \in ExtDevices, r \in DOMAIN chanAt :
        ( /\ stream[d] = "listening" /\ pushQ[d] = {}
          /\ chanAt[r] = connects[d] /\ connects[d] > 0
          /\ LiveFor(d, r)
          /\ PendingOf(DeviceOwner[d], d) = {r} )
        => r \in delivered[d]

\* C9: when the extension processes a delivery of a request that its
\* processing of an earlier delivery already completed or failed, the
\* complete call it sends changes neither status nor error message.
C9_RedeliveryIdempotent ==
    [][\A d \in ExtDevices, i \in ReqIds :
          ( /\ IsPatchOf(i) /\ i \in delivered[d]
            /\ inbox'[d] # inbox[d]
            /\ requests[i].status \in {"completed", "failed"} )
          => /\ requests'[i].status = requests[i].status
             /\ requests'[i].error_msg = requests[i].error_msg]_vars

\* C10: at the return of a successful createRequest for target T, the
\* pending lookup of the same owner for T yields exactly the request just
\* created, with the iv and the ciphertext of the snapshot the call resolved.
C10_CreateThenPoll ==
    [][\A c \in CallIds, u \in Users, d \in Devices, r \in CallIds, s \in snapshots :
          ( /\ calls[c].pc = "emit" /\ calls'[c].pc = "done"
            /\ u = calls[c].user /\ d = calls[c].target
            /\ r = calls[c].req /\ s.id = calls[c].snapshot )
          => /\ findPendingByTargetDeviceWithSnapshot(u, d)' = {r}
             /\ Payload(r)' = [id |-> r, snapshot_id |-> s.id,
                               snapshot_iv |-> s.iv,
                               encrypted_blob |-> s.encrypted_blob]]_vars

\* C10 witness: the poll that follows a successful createRequest has
\* answered pending = true with a request.
C10_Witness ==
    /\ response.route = "GET /restore/pending"
    /\ response.pending
    /\ requests[response.request.id].created_at = now
    /\ \E c \in CallIds : calls[c].pc = "done"

\* C11: a request created by a createRequest call that names no snapshot
\* carries the id of a snapshot of the target device whose captured_at no
\* other snapshot of the target exceeds; when the target has exactly one
\* snapshot, it is that one.
C11_DefaultSnapshot ==
    [][\A c \in CallIds :
          (calls[c].pc = "insert" /\ calls'[c].pc = "emit" /\ calls[c].given = NULL)
          => LET mine == {s \in snapshots : s.device_id = calls[c].target}
                 sid == requests'[Len(requests) + 1].snapshot_id
             IN  /\ \E s \in mine :
                       /\ s.id = sid
                       /\ \A o \in mine : o.captured_at <= s.captured_at
                 /\ \A s \in mine : mine = {s} => sid = s.id]_vars

\* C11 witness: a call without snapshot id has created its request while
\* the target holds an older and a newer snapshot, and the request carries
\* the newer one, which was uploaded first.
C11_Witness ==
    \E c \in CallIds :
        /\ calls[c].pc = "emit"
        /\ calls[c].given = NULL
        /\ \E s1, s2 \in snapshots :
              /\ s1.device_id = calls[c].target
              /\ s2.device_id = calls[c].target
              /\ s1.captured_at < s2.captured_at
              /\ s2.id = "1"
              /\ requests[calls[c].req].snapshot_id = s2.id

\* C12: a createRequest call for which no snapshot resolves (unknown id,
\* or a target that never synced) ends with the error 'No snapshots found',
\* changes no request and emits nothing; a call that goes on has resolved
\* the snapshot it was given, or one of the target.
C12_NoSnapshotFails ==
    [][\A c \in CallIds :
          (calls[c].pc = "idle" /\ calls'[c].pc # "idle")
          => /\ calls'[c].pc = "done"
                  => /\ response'.route = "POST /restore"
                     /\ response'.code = 400
                     /\ response'.error = "No snapshots found"
                     /\ requests' = requests
                     /\ pushQ' = pushQ
             /\ calls'[c].pc = "expire"
                  => \E s \in snapshots :
                        /\ s.id = calls'[c].snapshot
                        /\ IF calls'[c].given = NULL
                           THEN s.device_id = calls'[c].target
                           ELSE s.id = calls'[c].given]_vars

\* C12 witness: a createRequest call has just failed with 'No snapshots
\* found' while a request is pending, and that request is still pending.
C12_Witness ==
    /\ response.route = "POST /restore"
    /\ response.code = 400
    /\ \E i \in ReqIds : requests[i].status = "pending"

\* C13: a createRequest call creates a request only when the caller owns
\* both the target device and the snapshot.
C13_OwnershipInCreate ==
    [][\A c \in CallIds :
          (calls[c].pc = "insert" /\ calls'[c].pc = "emit")
          => /\ DeviceOwner[calls[c].target] = calls[c].user
             /\ \A s \in snapshots :
                   s.id = calls[c].snapshot => s.user_id = calls[c].user]_vars

\* C14: once the time is past a request's expires_at, no poll reply carries
\* the request and no complete call changes its status, whether or not the
\* sweep has marked it expired.
C14_ExpiryBoundsActionability ==
    [][\A i \in ReqIds :
          requests[i].expires_at < now
          => /\ IsPatchOf(i) => requests'[i].status = requests[i].status
             /\ (response'.route = "GET /restore/pending" /\ response'.pending)
                   => response'.request.id # i]_vars

\* C15: every reply of fetch-latest holds exactly one row for each device
\* of the caller that has a stored snapshot, and the row is a stored snapshot
\* of that device whose captured_at no other snapshot of the device exceeds.
C15_LatestPerDevice ==
    response.route = "GET /snapshots/latest"
    => LET rows == response.snapshots
           mine == {s \in snapshots : DeviceOwner[s.device_id] = response.user}
       IN  /\ rows \subseteq mine
           /\ \A d \in {s.device_id : s \in mine} :
                 Cardinality({x \in rows : x.device_id = d}) = 1
           /\ \A x \in rows, s \in mine :
                 s.device_id = x.device_id => s.captured_at <= x.captured_at

\* C15 witness: fetch-latest has answered with the row of the snapshot
\* uploaded first, while the same device also holds a snapshot uploaded
\* later with an earlier captured_at.
C15_Witness ==
    /\ response.route = "GET /snapshots/latest"
    /\ \E x \in response.snapshots, s \in snapshots :
          /\ s.device_id = x.device_id
          /\ s.captured_at < x.captured_at
          /\ x.id = "1"

\* ---------------------------------------------------------------- C16
\* C16: tab events that each arrive less than one debounce window after the
\* one before are followed by exactly one debounce-triggered sync attempt:
\* none while the alarm they set is pending, one once it is gone, and that
\* one not before a full window has passed since the last of the events.
C16_DebounceCoalescing ==
    /\ debounce >= 0 => burst.events >= 1 /\ burst.syncs = 0
    /\ (debounce = -1 /\ burst.events >= 1) => burst.syncs = 1
    /\ burst.syncs >= 1 => sinceEvent = DEBOUNCE_SECONDS

\* two events less than a window apart, and their one attempt made
C16_Witness ==
    /\ burst.events = MaxEvents
    /\ burst.syncs = 1
    /\ \E p \in PassIds : passes[p].trigger = "debounce"

\* ---------------------------------------------------------------- C17
\* C17: a pass whose fingerprint equals lastUploadedHash, and so a pass over
\* the state the pass before it uploaded, ends at the fingerprint test: it
\* makes no network call, stores nothing and clears isDirty.
C17_FingerprintGating ==
    [][\A p \in PassIds :
          (/\ passes[p].pc = "hashed"
           /\ passes'[p] # passes[p]
           /\ restarts' = restarts
           /\ \/ lastUploadedHash = hashString(Serialize(passes[p].tabs))
              \/ prevPass = [tabs |-> passes[p].tabs, uploaded |-> TRUE])
          => /\ passes'[p] = IdlePass
             /\ isDirty' = FALSE
             /\ response'.route # "POST /snapshots"
             /\ uploads' = uploads
             /\ snapshots' = snapshots]_vars

\* after one upload, a later pass over the same tabs has ended without one
C17_Witness ==
    /\ uploads = 1
    /\ failures = 0
    /\ restarts = 0
    /\ prevPass = [tabs |-> chromeTabs, uploaded |-> FALSE]
    /\ chromeTabs # 0
    /\ lastUploadedHash = hashString(Serialize(chromeTabs))
    /\ ~isDirty

\* ---------------------------------------------------------------- C19
\* C19: a failed upload leaves isDirty and lastUploadedHash as they were, so a
\* dirty engine stays dirty; the relay stores nothing; the pass ends there,
\* and the step starts no other pass and sets no alarm.
C19_UploadFailure ==
    [][(response'.route = "POST /snapshots" /\ response'.code = 401)
          => /\ isDirty' = isDirty
             /\ lastUploadedHash' = lastUploadedHash
             /\ uploads' = uploads
             /\ snapshots' = snapshots
             /\ debounce' = debounce
             /\ \E p \in PassIds :
                   /\ passes[p].pc = "upload"
                   /\ passes' = [passes EXCEPT ![p] = IdlePass]]_vars

\* an upload has just failed in a dirty engine, and no pass is left
C19_Witness ==
    /\ response.route = "POST /snapshots"
    /\ response.code = 401
    /\ isDirty
    /\ lastUploadedHash # hashString(Serialize(chromeTabs))
    /\ \A p \in PassIds : passes[p].pc = "idle"

\* ---------------------------------------------------------------- C20
\* C20: the pass that a login starts, on a device that stays logged in, does
\* not end before its upload: it reaches apiUploadSnapshot whatever was
\* uploaded before.
C20_LoginForcesUpload ==
    [][\A p \in PassIds :
          (/\ passes[p].trigger = "login"
           /\ loggedIn /\ loggedIn'
           /\ passes'[p].pc = "idle")
          => /\ passes[p].pc = "upload"
             /\ response'.route = "POST /snapshots"]_vars

\* ---------------------------------------------------------------- C18
\* the relay's latest snapshot of SyncDevice holds the tabs that are open
RelayHoldsCurrentTabs ==
    \A rows \in findLatestByUserId(DeviceOwner[SyncDevice]) :
        \E s \in rows :
            /\ s.device_id = SyncDevice
            /\ Plain[s.encrypted_blob].tabs = chromeTabs

\* C18: on a device that stays logged in, once the tabs have changed, from
\* some time on the relay's latest snapshot of the device holds the tabs
\* that are open.
C18_NoMissedUpload == (events >= 1) ~> [](RelayHoldsCurrentTabs)

\* ---------------------------------------------------------------- C21
\* C21: the logout step leaves no debounce alarm, resets isDirty and
\* lastUploadedHash and removes the stored DataKey and the logged-in flag;
\* and while the device is logged out no alarm starts a sync pass.
C21_LogoutStopsEngine ==
    [][/\ (loggedIn /\ ~loggedIn')
            => /\ debounce' = -1
               /\ isDirty' = FALSE
               /\ lastUploadedHash' = NULL
               /\ masterKey'[SyncDevice] = FALSE
       /\ (~loggedIn /\ ~loggedIn')
            => \A p \in PassIds :
                  passes[p].pc = "idle" => passes'[p].pc = "idle"]_vars

\* ---------------------------------------------------------------- C22
\* C22: the relay is zero-knowledge: the values it has been sent never contain
\* the raw DataKey, and the DataKey is not among the keys it can compute from
\* them.
C22_RelayZeroKnowledge ==
    dataKey # NULL =>
        /\ dataKey \notin received.passwords \cup received.hashes
        /\ dataKey \notin RelayKeys

\* ---------------------------------------------------------------- C23
\* C23: key durability: after every sequence of registration, recovery with
\* re-wrapping under a new password, logins and logouts, the password envelope
\* opened with the password the relay accepts yields the DataKey generated at
\* registration, the recovery envelope (while it exists) opened with the
\* recovery code yields the same key, and so does the key a logged-in
\* extension stores.
C23_KeyDurability ==
    users # NoUser =>
        /\ \A pw \in Passwords :
              verifyPassword(pw, users.password_hash) =>
                 decryptMasterKey(users.password_envelope.encrypted,
                                  users.password_envelope.iv,
                                  deriveWrappingKey(pw, users.password_envelope.salt))
                    = dataKey
        /\ users.has_recovery =>
              \A code \in RecoveryCodes :
                 verifyPassword(hashRecoveryCode(code), users.recovery_key_hash) =>
                    decryptMasterKeyWithRecoveryCode(
                        users.recovery_envelope.encrypted, users.recovery_envelope.iv,
                        users.recovery_envelope.salt, code) = dataKey
        /\ (loggedIn /\ masterKey[SyncDevice]) => storedKey = dataKey

\* The account was recovered and the extension has logged in afterwards
C23_Witness ==
    /\ users # NoUser
    /\ ~users.has_recovery
    /\ logins = 1
    /\ loggedIn
    /\ storedKey = dataKey

UnwrapFailsClosed ==
    users # NoUser =>
        LET pe == users.password_envelope
            re == users.recovery_envelope
        IN  /\ \A pw \in Passwords :
                  (~verifyPassword(pw, users.password_hash) \/ ~pe.encrypted.intact)
                     => decryptMasterKey(pe.encrypted, pe.iv,
                                         deriveWrappingKey(pw, pe.salt))
                           = AuthenticationError
            /\ users.has_recovery =>
                  \A code \in RecoveryCodes :
                     ~verifyPassword(hashRecoveryCode(code), users.recovery_key_hash)
                        => decryptMasterKeyWithRecoveryCode(re.encrypted, re.iv,
                                                            re.salt, code)
                              = AuthenticationError

\* C25: unwrap fails closed: opening the password envelope with another
\* password, the recovery envelope with another recovery code, or a corrupted
\* envelope with any password yields the authentication error and never a key;
\* and a login attempt that does not get the key out of the envelope leaves
\* the extension logged out, with no key stored and no sync pass started.
C25_UnwrapFailsClosed ==
    [][/\ UnwrapFailsClosed'
       /\ (response'.route = "auth/login" /\ response'.code \in {200, 401})
             => /\ ~loggedIn'
                /\ ~masterKey'[SyncDevice]
                /\ UNCHANGED <<loggedIn, masterKey, storedKey, passes, isDirty>>]_vars

\* The password was right and the envelope corrupted: the relay accepted the
\* login and the unwrap failed
C25_Witness ==
    /\ response.route = "auth/login"
    /\ response.code = 200
    /\ ~users.password_envelope.encrypted.intact
    /\ ~loggedIn

\* ---------------------------------------------------------------- C26
\* C26: deleting a device its caller owns succeeds, and afterwards the device
\* is gone, no pending restore request names it as source or target, and none
\* of its snapshots remain.
C26_DeviceDeletionCascade ==
    [][(/\ response'.route = "devices/delete"
        /\ response'.device \in devices
        /\ DeviceOwner[response'.device] = response'.user)
          => /\ response'.code = 200
             /\ response'.device \notin devices'
             /\ \A s \in snapshots' : s.device_id # response'.device
             /\ \A i \in 1..Len(requests') :
                   requests'[i].status = "pending"
                      => /\ requests'[i].target_device_id # response'.device
                         /\ requests'[i].source_device_id # response'.device]_vars

\* ---------------------------------------------------------------- C27
\* C27: under every retention setting, 0 included, no upload, retention update
\* or cleanup run takes a device's latest snapshot away: a device that has a
\* snapshot keeps one that is captured no earlier than any it had, and the
\* device of an accepted upload has a snapshot afterwards.
C27_RetentionKeepsLatest ==
    [][/\ \A d \in Devices :
            LET mine == {s \in snapshots : s.device_id = d}
            IN  mine # {} =>
                   \E k \in snapshots' :
                      /\ k.device_id = d
                      /\ \A s \in mine : s.captured_at <= k.captured_at
       /\ (response'.route = "POST /snapshots" /\ response'.code = 201)
             => \E k \in snapshots' : k.device_id = response'.device_id]_vars

\* An upload was pruned away at once: the device holds one snapshot, an
\* earlier upload, under retention 1
C27_Witness ==
    /\ uploads = 2
    /\ response.route = "POST /snapshots"
    /\ response.code = 201
    /\ snapshot_retention[DeviceOwner[response.device_id]] = 1
    /\ \A s \in snapshots : s.device_id = response.device_id => s.id = "1"
    /\ \E s \in snapshots : s.device_id = response.device_id

\* ---------------------------------------------------------------- C28
\* C28: a firing of the periodic fallback alarm starts a sync pass, with
\* trigger fallback, exactly when isDirty is set or the last successful sync is
\* older than the interval or absent, and starts none otherwise; the alarm can
\* fire whatever the state of the debounce alarm and after a restart of the
\* worker.
C28_FallbackRule ==
    /\ [][(notified'.event = "alarms.fallback" /\ notified'.parity # notified.parity)
             => IF isDirty \/ syncStale
                THEN \E p \in PassIds :
                        /\ passes[p].pc = "idle"
                        /\ passes' = [passes EXCEPT
                                        ![p] = [IdlePass EXCEPT !.pc = "read",
                                                                !.trigger = "fallback"]]
                ELSE passes' = passes]_vars
    /\ [](HasFreePass => ENABLED OnFallbackAlarm)

\* The alarm fired with nothing to do, after a restart, while the debounce
\* alarm was set: no pass started
C28_Witness ==
    /\ notified.event = "alarms.fallback"
    /\ ~isDirty
    /\ ~syncStale
    /\ restarts = 1
    /\ debounce >= 0
    /\ \A p \in PassIds : passes[p].pc = "idle"

\* ---------------------------------------------------------------- C29
\* C29: a tab activation, and a tab update whose changeInfo carries neither a
\* url nor a title, leave isDirty as it was and neither set nor restart the
\* debounce alarm.
C29_ExcludedNotifications ==
    [][(/\ notified'.parity # notified.parity
        /\ \/ notified'.event = "tabs.onActivated"
           \/ /\ notified'.event = "tabs.onUpdated"
              /\ notified'.changeInfo \notin {"url", "title"})
          => UNCHANGED <<isDirty, debounce>>]_vars

\* A favicon update arrived while the debounce alarm was counting down
C29_Witness ==
    /\ notified.event = "tabs.onUpdated"
    /\ notified.changeInfo = "favIconUrl"
    /\ debounce \in 1..(DEBOUNCE_SECONDS - 1)
    /\ isDirty

C31_FailureReason ==
    /\ [][(response'.route = "PATCH /restore/:id" /\ response'.status = "failed")
            => /\ response'.error_msg \notin {"", NULL}
               /\ requests'[response'.request_id].error_msg = response'.error_msg]_vars
    /\ [][(/\ response'.route = "GET /restore/:id"
           /\ response'.code = 200
           /\ response'.request.status = "failed")
            => /\ response'.request = requests[response'.request_id]
               /\ response'.request.error_msg \notin {"", NULL}]_vars

\* C32: a sync pass that fails (the upload is rejected or does not reach the
\* relay, or an await throws) leaves its message in last_error; a stored
\* message changes only at a successful upload or a later failure; and
\* whatever last_error holds, the debounce alarm that is due and the fallback
\* alarm of a dirty or stale engine start a pass.
C32_LastErrorPreserved ==
    /\ [][\A p \in PassIds :
            /\ PerformSyncUploadFailed(p) => last_error' # NULL
            /\ \A errorMsg \in SyncExceptions :
                  PerformSyncThrows(p, errorMsg) => last_error' = errorMsg]_vars
    /\ [][(last_error # NULL /\ last_error' # last_error)
            => \E p \in PassIds :
                  \/ PerformSyncUpload(p)
                  \/ PerformSyncUploadFailed(p)
                  \/ \E errorMsg \in SyncExceptions : PerformSyncThrows(p, errorMsg)]_vars
    /\ [](/\ (debounce = 0 /\ HasFreePass) => ENABLED DebounceAlarm
          /\ ((isDirty \/ syncStale) /\ HasFreePass) => ENABLED FallbackAlarm)

\* C33: the worker never has two push-channel connections open or being
\* opened at the same time, and isStreamActive is true exactly when one is
\* open or being opened.
C33_SingleStream ==
    /\ openingStreams + openStreams <= 1
    /\ isStreamActive <=> (openingStreams + openStreams >= 1)

\* C34: every restore request that is pending and not past its expires_at is
\* what findPendingByTargetDeviceWithSnapshot returns for its owner and its
\* target, whatever snapshots later uploads have pruned.
C34_LiveRequestFetchable ==
    \A i \in ReqIds :
        (requests[i].status = "pending" /\ requests[i].expires_at > now)
            => i \in findPendingByTargetDeviceWithSnapshot(
                        requests[i].user_id, requests[i].target_device_id)

\* C35: when POST /snapshots answers 201 with a snapshot id, the snapshots
\* table holds a row with that id after the call, whatever captured_at the
\* client sent and whatever the account's retention is.
C35_AcceptedUploadStored ==
    [][(response'.route = "POST /snapshots" /\ response'.code = 201)
        => \E s \in snapshots' : s.id = response'.snapshot_id]_vars

\* C36: a restore operation of one account neither changes nor reveals a
\* restore request of another account: createRequest expires no request of
\* another owner, complete leaves it as it is, getStatus does not return it
\* and fetchPendingForTarget returns only the caller's own request.
C36_OwnerIsolation ==
    [][/\ \A c \in CallIds :
            CreateExpire(c) =>
                \A i \in ReqIds :
                    requests[i].user_id # calls[c].user => requests'[i] = requests[i]
       /\ \A u \in Users, id \in ReqIds, out \in Outcomes :
            (PatchRestore(u, id, out) /\ requests[id].user_id # u)
                => requests'[id] = requests[id]
       /\ \A u \in Users, id \in ReqIds :
            (GetRestoreStatus(u, id) /\ requests[id].user_id # u)
                => response'.code = 404
       /\ \A in \in PollInputs :
            (GetRestorePending(in[1], in[2]) /\ response'.pending)
                => requests[response'.request.id].user_id = in[1]]_vars

\* C37: a recover call whose code does not verify against the stored
\* recovery hash changes nothing of the account and is not answered with
\* success, and neither does a recovery page that cannot open the envelope;
\* the call that succeeds leaves the account without recovery material, so
\* that its code no longer verifies; and an account without recovery
\* material stays without it.
C37_RecoveryCodeSingleUse ==
    [][/\ (/\ response'.route = "auth/recover"
           /\ ~(users.has_recovery
                /\ verifyPassword(response'.recovery_code, users.recovery_key_hash)))
            => (users' = users /\ response'.code # 200)
       /\ response'.route = "auth/recovery-material" => users' = users
       /\ (response'.route = "auth/recover" /\ response'.code = 200)
            => /\ ~users'.has_recovery
               /\ ~verifyPassword(response'.recovery_code, users'.recovery_key_hash)
               /\ users'.recovery_envelope = NoEnvelope
       /\ (users # NoUser /\ ~users.has_recovery) => ~users'.has_recovery]_vars

\* The code that recovered the account is posted again and answered 404
C37_Witness ==
    /\ users # NoUser
    /\ ~users.has_recovery
    /\ response.route = "auth/recover"
    /\ response.code = 404
    /\ response.recovery_code \in {hashRecoveryCode(code) : code \in RecoveryCodes}
    /\ \E pw \in Passwords : verifyPassword(pw, users.password_hash)

\* ---------------------------------------------------------------- C38
\* C38: the requester's wait is per request.  The waiting phase of request R
\* ends only in a step that is the user's cancel, the answer of a poll of R
\* that read completed, failed or expired, or R's own 90-second timeout; and
\* while the dashboard waits for R, its interval stays set.
C38_WaitPerRequest ==
    /\ [][(restore.phase = "waiting" /\ restore' # restore)
            => \/ cancelRestore
               \/ PollAnswer(restore.requestId)
                    /\ requests[restore.requestId].status \in Terminal
               \/ RestoreTimeout(restore.requestId)]_vars
    /\ [][(restore.phase = "waiting" /\ restore' = restore
           /\ restore.requestId \in intervals)
            => restore.requestId \in intervals']_vars

\* ---------------------------------------------------------------- C39
\* the tabs that are open are not the tabs of the last successful upload
TabsDifferFromUploaded ==
    /\ lastUploadedHash # NULL
    /\ hashString(Serialize(chromeTabs)) # lastUploadedHash

\* C39: dirty tracking is complete.  On a logged-in device whose open tabs
\* differ from the ones it uploaded last, isDirty is set, or the debounce
\* alarm is set, or a performSync invocation is in flight.
C39_DirtyTrackingComplete ==
    (loggedIn /\ TabsDifferFromUploaded)
        => \/ isDirty
           \/ debounce >= 0
           \/ \E p \in PassIds : passes[p].pc # "idle"


====
